---- MODULE Spec2Model ----
(***************************************************************************)
(* Pairing, routing and approval protocol of vibewithgary:                 *)
(*   relay  (src/relay/server.py):  the registry of agent connections      *)
(*          (pending_agents, desktop_agents), POST /api/pair-agent and the *)
(*          two websocket endpoints;                                       *)
(*   agent  (src/agent/gary_agent.py): the message loop, the approval      *)
(*          round-trip and the reconnect loop.                             *)
(* Python dicts are modelled as sets of <<key, value>> pairs written       *)
(* through DictPut / DictDel, so that "one value per key" is a property of  *)
(* the operations and not of the representation.                           *)
(***************************************************************************)
EXTENDS Integers, Sequences, FiniteSets, TLC

\* Python's None, one per type of value it stands in for
None == "None"
NoAgent == 0
NoCode == <<"None">>

\* ------------------------------------------------------------------ bounds
NumConns == 2
NumClients == 2

Conns == 1..NumConns
Clients == 1..NumClients
Users == {"u1", "u2"}

\* Pairing codes as the text the peer sends: sequences of characters.
RawCodes == {<<>>, <<"a", "b">>, <<"A", "B">>, <<" ", "C", "D">>}

\* ------------------------------------------------------- python helpers
Upper(ch) == CASE ch = "a" -> "A" [] ch = "b" -> "B" [] OTHER -> ch

RECURSIVE LStrip(_)
LStrip(s) == IF s # <<>> /\ Head(s) = " " THEN LStrip(Tail(s)) ELSE s

RECURSIVE RStrip(_)
RStrip(s) == IF s # <<>> /\ s[Len(s)] = " " THEN RStrip(SubSeq(s, 1, Len(s) - 1)) ELSE s

\* data.get("pairing_code", "").upper().strip()
NormalizeCode(raw) == RStrip(LStrip([i \in 1..Len(raw) |-> Upper(raw[i])]))

Codes == {NormalizeCode(r) : r \in RawCodes}

DictHas(d, k) == \E e \in d : e[1] = k
\* dict.get(k, default)
DictGetOr(d, k, default) == IF DictHas(d, k) THEN (CHOOSE e \in d : e[1] = k)[2] ELSE default
DictGet(d, k) == DictGetOr(d, k, NoAgent)
DictDel(d, k) == {e \in d : e[1] # k}
\* mutant of DictPut: the previous value of the key is kept
DictPutKeep(d, k, v) == d \cup {<<k, v>>}

DictPut(d, k, v) == {e \in d : e[1] # k} \cup {<<k, v>>}

\* ------------------------------------------------------------ relay state
VARIABLES
    sock,             \* agent connection: "none" | "open" | "dropped" | "closed"
    agent_user_id,    \* DesktopAgent.user_id
    pairing_code,     \* agent_websocket's local variable pairing_code
    mobile_client,    \* DesktopAgent.mobile_client, pairs <<conn, client>>
    pending_agents,   \* dict pairing_code -> agent, pairs <<code, conn>>
    desktop_agents,   \* dict user_id -> agent, pairs <<user, conn>>
    csock,            \* control client connection: "none" | "open" | "closed"
    client_user,      \* client_websocket's local user
    client_agent,     \* client_websocket's local agent
    use_direct_chat,  \* client_websocket's local use_direct_chat
    promoted          \* history: the codes a promotion has succeeded with

relayVars == <<sock, agent_user_id, pairing_code, mobile_client,
               pending_agents, desktop_agents, csock, client_user, client_agent,
               use_direct_chat, promoted>>

\* ---------------------------------------------------------- routing state
VARIABLES
    gary_chat,        \* the global gary_chat is set (ANTHROPIC_API_KEY was given)
    agent_rx,         \* per agent connection: the clients whose forwarded request it has not answered
    last_fwd,         \* history: what the relay's last step did with the message it read
    notified          \* history: the agent the relay's last step wrote client_disconnected to

routeVars == <<gary_chat, agent_rx, last_fwd, notified>>

\* ------------------------------------------------------------ agent state
VARIABLES
    auto_approve,       \* GaryAgent.auto_approve
    trust_session,      \* GaryAgent.trust_session
    apc,                \* where connect() is: "connecting" | "recv" | "wait" | "sleep"
    retry_delay,        \* connect()'s local retry_delay
    ws,                 \* GaryAgent.websocket: "open" | "closed"
    inbox,              \* messages received on ws that the loop has not yet taken
    cur,                \* the message whose handle_message is suspended in prompt_approval
    pending_approvals,  \* GaryAgent.pending_approvals, pairs <<key, value>>
    elapsed,            \* seconds the current wait_for has been waiting
    log,                \* history: what the agent sent and did, in order
    nreq,               \* history: operation requests the control client has sent
    nresp,              \* history: approval responses the control client has sent
    answered,           \* history: <<request_id, answer>> given while that approval waited
    arrivedDuring       \* history: <<r2, r1, safe>>, request r2 arrived while r1 waited; safe: r2 is no dangerous operation

\* the agent's identity and its connect() loop
VARIABLES
    agent_id,           \* GaryAgent.agent_id
    self_pairing_code,  \* GaryAgent.pairing_code
    running,            \* GaryAgent.running
    registered,         \* history: the register messages the agent has sent
    reg_sent            \* history: register was sent on the connection of this loop round

identVars == <<agent_id, self_pairing_code, running>>

agentVars == <<auto_approve, trust_session, apc, retry_delay, ws, inbox, cur,
               pending_approvals, elapsed, log, nreq, nresp, answered, arrivedDuring,
               identVars, registered, reg_sent>>

\* ---------------------------------------- one operation request, in isolation
VARIABLES
    req,                \* handle_message's argument: an operation request
    approval,           \* how prompt_approval's wait ends: <<the Event was set, the answer stored>>
    op_ok,              \* whether the operation itself succeeds when it is run
    result_msg          \* the message send_result has sent for req

wireVars == <<req, approval, op_ok, result_msg>>

\* ------------------------------------- pairing codes issued by the server
VARIABLES
    now,                \* time.time(), in seconds
    pairing_codes,      \* table pairing_codes, pairs <<code, <<user_id, expires_at>>>>
    issued_at,          \* history: when each code was last issued (NoTime: never)
    redemptions,        \* history: successful /api/pair calls per code since it was last issued
    last_pair           \* history: what the last /api/pair call did

httpVars == <<now, pairing_codes, issued_at, redemptions, last_pair>>

\* ------------------- the connections between one agent process and its client
VARIABLES
    client_tx,          \* requests the control client has sent that the relay has not read yet
    relay_read,         \* how many of the agent's sent messages the relay has read
    client_in           \* history: the agent's messages the relay has written to the client, in order

linkVars == <<client_tx, relay_read, client_in>>

\* ------------------------------------------------------ one edit_file call
VARIABLES
    file_content,       \* the text of the file at path
    file_before,        \* history: the text of the file before the call
    edit_args,          \* edit_file's arguments old_string, new_string, replace_all
    edit_result         \* the dict edit_file returned

editVars == <<file_content, file_before, edit_args, edit_result>>

\* -------------------------------------------- one approved bash request
VARIABLES
    bash_msg,           \* the bash request: request_id and its "timeout" field
    cmd,                \* the command: how long it runs and its exit code
    proc,               \* the process subprocess.run starts: "none" | "exited" | "killed"
    bash_pc,            \* the handler: "approved" | "sent" | "raised"
    bash_sent           \* the result message that went out

bashVars == <<bash_msg, cmd, proc, bash_pc, bash_sent>>

otherVars == <<wireVars, httpVars, linkVars, editVars, bashVars>>

vars == <<relayVars, routeVars, agentVars, otherVars>>

NoClient == 0

\* what became of a message: kind of message, the connection it came from,
\* the connection it was written to, the client that issued the request it
\* answers, and the outcome
Route(kind, from, to, issuer, outcome) ==
    [kind |-> kind, from |-> from, to |-> to, issuer |-> issuer, outcome |-> outcome]
NoRoute == Route("none", 0, 0, NoClient, "none")

\* connections are numbered in the order the relay accepts them
Accepted(a) == \A b \in Conns : b < a => sock[b] # "none"

\* /ws/agent accepted without api_key: DesktopAgent(websocket=websocket)
AgentAccept(a) ==
    /\ sock[a] = "none"
    /\ Accepted(a)
    /\ sock' = [sock EXCEPT ![a] = "open"]
    /\ UNCHANGED <<agent_user_id, pairing_code, mobile_client,
                   pending_agents, desktop_agents, csock, client_user,
                   client_agent, use_direct_chat, promoted>>
    /\ last_fwd' = NoRoute
    /\ notified' = NoAgent
    /\ UNCHANGED <<gary_chat, agent_rx>>
    /\ UNCHANGED <<agentVars, otherVars>>

\* /ws/agent accepted with a valid api_key: paired at once under the key's user
AgentAcceptKey(a, u) ==
    /\ sock[a] = "none"
    /\ Accepted(a)
    /\ sock' = [sock EXCEPT ![a] = "open"]
    /\ agent_user_id' = [agent_user_id EXCEPT ![a] = u]
    /\ desktop_agents' = DictPut(desktop_agents, u, a)
    /\ UNCHANGED <<pairing_code, mobile_client, pending_agents,
                   csock, client_user, client_agent, use_direct_chat, promoted>>
    /\ last_fwd' = NoRoute
    /\ notified' = NoAgent
    /\ UNCHANGED <<gary_chat, agent_rx>>
    /\ UNCHANGED <<agentVars, otherVars>>

\* a register message read by agent_websocket's loop
AgentRegister(a, raw) ==
    /\ sock[a] = "open"
    /\ agent_user_id[a] = None
    /\ LET code == NormalizeCode(raw) IN
        /\ pairing_code' = [pairing_code EXCEPT ![a] = code]
        /\ IF code # <<>>
           THEN pending_agents' = DictPut(pending_agents, code, a)
           ELSE UNCHANGED pending_agents
    /\ UNCHANGED <<sock, agent_user_id, mobile_client, desktop_agents, csock,
                   client_user, client_agent, use_direct_chat, promoted>>
    /\ last_fwd' = NoRoute
    /\ notified' = NoAgent
    /\ UNCHANGED <<gary_chat, agent_rx>>
    /\ UNCHANGED <<agentVars, otherVars>>

\* POST /api/pair-agent by an authenticated user
PairAgent(u, raw) ==
    LET code == NormalizeCode(raw)
        agent == DictGet(pending_agents, code) IN
    /\ IF code = <<>> \/ agent = NoAgent
       THEN \* 400 "Pairing code required" / 404 "No agent found with this code"
            UNCHANGED <<agent_user_id, desktop_agents, pending_agents, promoted>>
       ELSE /\ agent_user_id' = [agent_user_id EXCEPT ![agent] = u]
            /\ desktop_agents' = DictPut(desktop_agents, u, agent)
            /\ pending_agents' = DictDel(pending_agents, code)
            /\ promoted' = promoted \cup {code}
    /\ UNCHANGED <<sock, pairing_code, mobile_client, csock,
                   client_user, client_agent, use_direct_chat>>
    /\ last_fwd' = NoRoute
    /\ notified' = NoAgent
    /\ UNCHANGED <<gary_chat, agent_rx>>
    /\ UNCHANGED <<agentVars, otherVars>>

\* the agent's socket goes away; agent_websocket has not yet seen it
AgentDrop(a) ==
    /\ sock[a] = "open"
    /\ sock' = [sock EXCEPT ![a] = "dropped"]
    /\ UNCHANGED <<agent_user_id, pairing_code, mobile_client,
                   pending_agents, desktop_agents, csock, client_user,
                   client_agent, use_direct_chat, promoted>>
    /\ last_fwd' = NoRoute
    /\ notified' = NoAgent
    /\ UNCHANGED <<gary_chat, agent_rx>>
    /\ UNCHANGED <<agentVars, otherVars>>

\* agent_websocket reads the disconnect and runs its finally block
AgentCleanup(a) ==
    /\ sock[a] = "dropped"
    /\ sock' = [sock EXCEPT ![a] = "closed"]
    /\ pairing_code' = [pairing_code EXCEPT ![a] = NoCode]   \* the handler's locals are gone
    /\ IF agent_user_id[a] # None /\ DictHas(desktop_agents, agent_user_id[a])
       THEN /\ desktop_agents' = DictDel(desktop_agents, agent_user_id[a])
            /\ UNCHANGED pending_agents
       ELSE IF pairing_code[a] # NoCode /\ pairing_code[a] # <<>>
               /\ DictHas(pending_agents, pairing_code[a])
       THEN /\ pending_agents' = DictDel(pending_agents, pairing_code[a])
            /\ UNCHANGED desktop_agents
       ELSE UNCHANGED <<pending_agents, desktop_agents>>
    /\ UNCHANGED <<agent_user_id, mobile_client, csock,
                   client_user, client_agent, use_direct_chat, promoted>>
    /\ agent_rx' = [agent_rx EXCEPT ![a] = {}]   \* what was written to the socket is lost
    /\ last_fwd' = NoRoute
    /\ notified' = NoAgent
    /\ UNCHANGED gary_chat
    /\ UNCHANGED <<agentVars, otherVars>>

\* whether a send on an agent socket in state st raises
SendRaises(st) == CASE st = "open" -> {FALSE}
                    [] st = "dropped" -> {FALSE, TRUE}
                    [] OTHER -> {TRUE}

\* mutant of AgentOf: a user without a paired agent gets a pending one
AgentOfOrPending(u) ==
    IF DictHas(desktop_agents, u) \/ pending_agents = {}
    THEN DictGet(desktop_agents, u)
    ELSE CHOOSE a \in Conns : (\E e \in pending_agents : e[2] = a)
                                /\ \A e \in pending_agents : a <= e[2]

\* "agent = desktop_agents.get(user.user_id)"
AgentOf(u) == DictGet(desktop_agents, u)

\* /ws/client accepted for a valid token of user u
ClientConnect(k, u) ==
    /\ csock[k] = "none"
    /\ \A j \in Clients : j < k => csock[j] # "none"
    /\ csock' = [csock EXCEPT ![k] = "open"]
    /\ client_user' = [client_user EXCEPT ![k] = u]
    /\ LET agent == AgentOf(u) IN
        /\ client_agent' = [client_agent EXCEPT ![k] = agent]
        /\ IF agent # NoAgent
           THEN /\ mobile_client' = DictPut(mobile_client, agent, k)
                \* send_text('{"type":"client_connected"}'): use_direct_chat = True when
                \* it raises; a write to a socket whose peer has just gone may do either
                /\ \E raised \in SendRaises(sock[agent]) :
                       use_direct_chat' = [use_direct_chat EXCEPT ![k] = raised]
           ELSE /\ use_direct_chat' = [use_direct_chat EXCEPT ![k] = TRUE]
                /\ UNCHANGED mobile_client
    /\ UNCHANGED <<sock, agent_user_id, pairing_code, pending_agents,
                   desktop_agents, promoted>>
    /\ last_fwd' = NoRoute
    /\ notified' = NoAgent
    /\ UNCHANGED <<gary_chat, agent_rx>>
    /\ UNCHANGED <<agentVars, otherVars>>

\* mutant of Attached: the finally block does not compare mobile_client
AttachedOnce(k) == client_agent[k] # NoAgent

\* the finally block's "if agent and agent.mobile_client == websocket"
Attached(k) == client_agent[k] # NoAgent /\ <<client_agent[k], k>> \in mobile_client

\* the finally block: agent.mobile_client = None and client_disconnected is
\* written to the agent (a send that raises is passed over)
Detached(k) == IF Attached(k) THEN DictDel(mobile_client, client_agent[k]) ELSE mobile_client
Notified(k) == IF Attached(k) THEN client_agent[k] ELSE NoAgent

\* the control client disconnects: client_websocket's finally block
ClientClose(k) ==
    /\ csock[k] = "open"
    /\ csock' = [csock EXCEPT ![k] = "closed"]
    /\ mobile_client' = Detached(k)
    /\ notified' = Notified(k)
    \* the handler's locals are gone
    /\ client_user' = [client_user EXCEPT ![k] = None]
    /\ client_agent' = [client_agent EXCEPT ![k] = NoAgent]
    /\ use_direct_chat' = [use_direct_chat EXCEPT ![k] = FALSE]
    /\ UNCHANGED <<sock, agent_user_id, pairing_code, pending_agents,
                   desktop_agents, promoted>>
    /\ last_fwd' = NoRoute
    /\ UNCHANGED <<gary_chat, agent_rx>>
    /\ UNCHANGED <<agentVars, otherVars>>

RelayNext ==
    \/ \E a \in Conns : AgentAccept(a)
    \/ \E a \in Conns, u \in Users : AgentAcceptKey(a, u)
    \/ \E a \in Conns, raw \in RawCodes : AgentRegister(a, raw)
    \/ \E u \in Users, raw \in RawCodes : PairAgent(u, raw)
    \/ \E a \in Conns : AgentDrop(a)
    \/ \E a \in Conns : AgentCleanup(a)
    \/ \E k \in Clients, u \in Users : ClientConnect(k, u)
    \/ \E k \in Clients : ClientClose(k)

\* ----------------------------------------------------------- relay routing
\* messages an agent sends that are no registration: pong, ping, an operation
\* result (has a request_id), any other message (approval_request, output),
\* a register message of an agent that is paired already, and a text that
\* is no JSON
AgentMsgKinds == {"pong", "ping", "result", "event", "register", "malformed"}

\* the connected clients whose handler holds agent a / that belong to a's user
ClientsHolding(a) == {j \in Clients : csock[j] = "open" /\ client_agent[j] = a}
ClientsOfUser(a) == {j \in Clients : csock[j] = "open" /\ client_user[j] = agent_user_id[a]}
Lowest(S) == IF S = {} THEN NoClient ELSE CHOOSE j \in S : \A i \in S : j <= i

\* mutant of ForwardTarget: the client that attached first keeps the traffic
ForwardTargetOldest(a) ==
    IF agent_user_id[a] # None /\ DictHas(mobile_client, a)
    THEN Lowest(ClientsHolding(a)) ELSE NoClient

\* mutant of ForwardTarget: without an attached client the message goes to a
\* connected client of the agent's user
ForwardTargetAny(a) ==
    IF agent_user_id[a] = None THEN NoClient
    ELSE IF DictHas(mobile_client, a) THEN DictGetOr(mobile_client, a, NoClient)
    ELSE Lowest(ClientsOfUser(a))

\* "if agent.mobile_client and agent.user_id": the client an agent message is written to
ForwardTarget(a) ==
    IF agent_user_id[a] # None THEN DictGetOr(mobile_client, a, NoClient) ELSE NoClient

\* a message other than a registration read by agent_websocket's loop;
\* issuer is the client whose request a result answers
AgentMessage(a, kind, issuer) ==
    /\ sock[a] = "open"
    /\ kind = "register" => agent_user_id[a] # None
    /\ IF kind = "result" THEN issuer \in agent_rx[a] ELSE issuer = NoClient
    /\ agent_rx' = [agent_rx EXCEPT ![a] = agent_rx[a] \ {issuer}]
    /\ notified' = NoAgent
    /\ LET k == ForwardTarget(a) IN
        IF kind = "malformed"
        THEN \* json.loads raises: "except: continue"
             /\ last_fwd' = Route(kind, a, NoClient, issuer, "skipped")
             /\ UNCHANGED mobile_client
        ELSE IF kind = "pong"
        THEN /\ last_fwd' = Route(kind, a, NoClient, issuer, "skipped")
             /\ UNCHANGED mobile_client
        ELSE IF k = NoClient
        THEN /\ last_fwd' = Route(kind, a, NoClient, issuer, "dropped")
             /\ UNCHANGED mobile_client
        ELSE IF csock[k] = "open"
        THEN /\ last_fwd' = Route(kind, a, k, issuer, "forwarded")
             /\ UNCHANGED mobile_client
        ELSE \* send_text raises: agent.mobile_client = None
             /\ last_fwd' = Route(kind, a, NoClient, issuer, "dropped")
             /\ mobile_client' = DictDel(mobile_client, a)
    /\ UNCHANGED <<sock, agent_user_id, pairing_code, pending_agents,
                   desktop_agents, csock, client_user, client_agent,
                   use_direct_chat, promoted, gary_chat>>
    /\ UNCHANGED <<agentVars, otherVars>>

\* an operation request (write_file, bash, ...) read by client_websocket's loop
ClientRequest(k) ==
    /\ csock[k] = "open"
    /\ LET agent == client_agent[k] IN
        IF use_direct_chat[k] /\ gary_chat
        THEN \* only type "message" is handled on this branch
             /\ last_fwd' = Route("request", k, NoAgent, k, "ignored")
             /\ UNCHANGED <<csock, mobile_client, client_user, client_agent,
                            use_direct_chat, agent_rx, notified>>
        ELSE IF agent = NoAgent
        THEN /\ last_fwd' = Route("request", k, NoAgent, k, "ignored")
             /\ UNCHANGED <<csock, mobile_client, client_user, client_agent,
                            use_direct_chat, agent_rx, notified>>
        ELSE \E raised \in SendRaises(sock[agent]) :
             IF ~raised
             THEN /\ last_fwd' = Route("request", k, agent, k, "forwarded")
                  /\ agent_rx' = [agent_rx EXCEPT ![agent] = agent_rx[agent] \cup {k}]
                  /\ UNCHANGED <<csock, mobile_client, client_user, client_agent,
                                 use_direct_chat, notified>>
             ELSE \* "except: break", then the finally block; the handler returns
                  /\ last_fwd' = Route("request", k, NoAgent, k, "closed")
                  /\ csock' = [csock EXCEPT ![k] = "closed"]
                  /\ mobile_client' = Detached(k)
                  /\ notified' = Notified(k)
                  /\ client_user' = [client_user EXCEPT ![k] = None]
                  /\ client_agent' = [client_agent EXCEPT ![k] = NoAgent]
                  /\ use_direct_chat' = [use_direct_chat EXCEPT ![k] = FALSE]
                  /\ UNCHANGED agent_rx
    /\ UNCHANGED <<sock, agent_user_id, pairing_code, pending_agents,
                   desktop_agents, promoted, gary_chat>>
    /\ UNCHANGED <<agentVars, otherVars>>

\* a text that is no JSON read by client_websocket's loop: json.loads raises
\* outside any try, the finally block runs and the handler ends
ClientMalformed(k) ==
    /\ csock[k] = "open"
    /\ last_fwd' = Route("malformed", k, NoAgent, k, "closed")
    /\ csock' = [csock EXCEPT ![k] = "closed"]
    /\ mobile_client' = Detached(k)
    /\ notified' = Notified(k)
    /\ client_user' = [client_user EXCEPT ![k] = None]
    /\ client_agent' = [client_agent EXCEPT ![k] = NoAgent]
    /\ use_direct_chat' = [use_direct_chat EXCEPT ![k] = FALSE]
    /\ UNCHANGED <<sock, agent_user_id, pairing_code, pending_agents,
                   desktop_agents, promoted, gary_chat, agent_rx>>
    /\ UNCHANGED <<agentVars, otherVars>>

\* the pairing codes of the agents in the routing runs
RouteRawCodes == {<<"a", "b">>}

\* the relay with message forwarding, its agents pairing by code as gary_agent.py does
RouteNext ==
    \/ \E a \in Conns : AgentAccept(a)
    \/ \E a \in Conns, raw \in RouteRawCodes : AgentRegister(a, raw)
    \/ \E u \in Users, raw \in RouteRawCodes : PairAgent(u, raw)
    \/ \E a \in Conns : AgentDrop(a)
    \/ \E a \in Conns : AgentCleanup(a)
    \/ \E k \in Clients, u \in Users : ClientConnect(k, u)
    \/ \E k \in Clients : ClientClose(k)
    \/ \E a \in Conns, kind \in AgentMsgKinds, k \in Clients \cup {NoClient} :
           AgentMessage(a, kind, k)
    \/ \E k \in Clients : ClientRequest(k)
    \/ \E k \in Clients : ClientMalformed(k)

\* the pairing codes an agent may register with, one after the other, in the
\* isolation runs
IsolationRawCodes == {<<"a", "b">>, <<" ", "C", "D">>}

\* the relay with message forwarding, its agent connections staying open and
\* free to register again before they are paired
IsolationNext ==
    \/ \E a \in Conns : AgentAccept(a)
    \/ \E a \in Conns, raw \in IsolationRawCodes : AgentRegister(a, raw)
    \/ \E u \in Users, raw \in IsolationRawCodes : PairAgent(u, raw)
    \/ \E k \in Clients, u \in Users : ClientConnect(k, u)
    \/ \E k \in Clients : ClientClose(k)
    \/ \E a \in Conns, k \in Clients \cup {NoClient} : AgentMessage(a, "result", k)
    \/ \E a \in Conns : AgentMessage(a, "event", NoClient)
    \/ \E k \in Clients : ClientRequest(k)

\* ============================================================== the agent
\* One agent process (GaryAgent): connect()'s reconnect loop, the message
\* loop "async for message in ws: await self.handle_message(data)" and
\* prompt_approval.  The control client and the network are the environment.

DangerousOps == {"write_file", "edit_file", "delete_file", "bash", "execute"}
SafeOps == {"read_file", "list_dir", "glob", "grep", "cd"}
OpTypes == DangerousOps \cup SafeOps

\* asyncio.wait_for(..., timeout=60.0)
ApprovalTimeout == 60
\* min(retry_delay * 2, 30)
MaxRetryDelay == 30

\* bounds of the agent model
NumRequests == 2
MaxResponses == 1
MaxInbox == 1
TickSeconds == 60

RequestIds == {<<"r", n>> : n \in 1..NumRequests}
NoRequest == <<"r", 0>>

\* approval_id = f"approval_{request_id}"
ApprovalId(request_id) == <<"approval_">> \o request_id
\* f"{approval_id}_result"
ResultKey(approval_id) == approval_id \o <<"_result">>

NoMsg == [type |-> "none", request_id |-> NoRequest, approval_id |-> <<>>,
          approved |-> FALSE, trust |-> FALSE]
OpMsg(op, r) == [type |-> op, request_id |-> r, approval_id |-> <<>>,
                 approved |-> FALSE, trust |-> FALSE]
ApprovalResponse(aid, approved, trust) ==
    [type |-> "approval_response", request_id |-> NoRequest, approval_id |-> aid,
     approved |-> approved, trust |-> trust]


\* a result dict of an operation that ran: {"success": ..., ...}; the error
\* texts of the operations themselves are taken as one
OpResult(ok) == [success |-> ok, error |-> IF ok THEN None ELSE "operation failed"]
\* {"success": False, "error": "Operation denied by user"}
DeniedResult == [success |-> FALSE, error |-> "Operation denied by user"]
NoResultMsg == [type |-> <<>>, request_id |-> NoRequest, result |-> OpResult(FALSE)]
\* how prompt_approval's wait can end: TimeoutError, or the Event set with an answer
ApprovalEnds == {<<FALSE, "deny">>} \cup {<<TRUE, a>> : a \in {"approve", "deny", "trust"}}

\* generate_pairing_code: six digits; the codes of these runs
ServerCodes == {"000001", "000002"}
\* create_pairing_code: "time.time() + 300"
CodeTTL == 300
\* bounds of the clock
ClockStep == 150
MaxClock == 600
NoTime == 0 - 1
\* what an /api/pair call found and did: the code, whether a record was found,
\* its expires_at, the time of the call, and whether a session token was returned
Pair(code, found, expires_at, at, ok) ==
    [code |-> code, found |-> found, expires_at |-> expires_at, at |-> at, ok |-> ok]
NoPair == Pair("", FALSE, NoTime, NoTime, FALSE)

\* bounds of the texts edit_file is run on
MaxContent == 3
MaxOldString == 2
Chars == {"a", "b"}
RECURSIVE Texts(_)
\* the texts of at most n characters
Texts(n) == IF n = 0 THEN {<<>>}
            ELSE Texts(n - 1) \cup {Append(t, ch) : t \in {u \in Texts(n - 1) : Len(u) = n - 1}, ch \in Chars}
EditArgs(old_string, new_string, replace_all) ==
    [old_string |-> old_string, new_string |-> new_string, replace_all |-> replace_all]
NoEdit == EditArgs(<<>>, <<>>, FALSE)
\* edit_file's return value: success, "replacements", and for an error the
\* text of the message with the count it names (0: it names none)
EditResult(success, replacements, error, count) ==
    [success |-> success, replacements |-> replacements, error |-> error, count |-> count]
NoEditResult == EditResult(FALSE, 0, "no call", 0)

\* message.get("timeout", 120)
BashDefaultTimeout == 120
\* the seconds a caller gives in "timeout" in these runs
MaxGivenTimeout == 2
\* the "timeout" field of a bash request: absent, null, or a number of seconds
Absent == 0 - 2
Null == 0 - 1
TimeoutFields == {Absent, Null} \cup 1..MaxGivenTimeout
\* a command that never ends by itself
Forever == 0 - 1
\* a command of duration d runs for d seconds and a half
Durations == {Forever, BashDefaultTimeout + 1} \cup 0..(MaxGivenTimeout + 1)
BashMsg(r, t) == [request_id |-> r, timeout |-> t]
NoBash == BashMsg(NoRequest, Absent)
Cmd(d, code) == [duration |-> d, exit_code |-> code]
NoCmd == Cmd(0, 0)

\* The relay at startup with no connection, and an agent process after
\* GaryAgent.__init__ and main(): the two flags come from --auto-approve / --trust
Init ==
    /\ sock = [a \in Conns |-> "none"]
    /\ agent_user_id = [a \in Conns |-> None]
    /\ pairing_code = [a \in Conns |-> NoCode]
    /\ mobile_client = {}
    /\ pending_agents = {}
    /\ desktop_agents = {}
    /\ csock = [k \in Clients |-> "none"]
    /\ client_user = [k \in Clients |-> None]
    /\ client_agent = [k \in Clients |-> NoAgent]
    /\ use_direct_chat = [k \in Clients |-> FALSE]
    /\ promoted = {}
    /\ gary_chat = FALSE
    /\ agent_rx = [a \in Conns |-> {}]
    /\ last_fwd = NoRoute
    /\ notified = NoAgent
    /\ auto_approve \in BOOLEAN
    /\ trust_session \in BOOLEAN
    /\ apc = "connecting"
    /\ retry_delay = 1
    /\ ws = "closed"
    /\ inbox = <<>>
    /\ cur = NoMsg
    /\ pending_approvals = {}
    /\ elapsed = 0
    /\ log = <<>>
    /\ nreq = 0
    /\ nresp = 0
    /\ answered = {}
    /\ arrivedDuring = {}
    /\ agent_id = "agent-1"
    /\ self_pairing_code = <<"A", "B">>
    /\ running = TRUE
    /\ registered = {}
    /\ reg_sent = FALSE
    /\ req = NoMsg
    /\ approval = <<FALSE, "deny">>
    /\ op_ok = FALSE
    /\ result_msg = NoResultMsg
    /\ now = 0
    /\ pairing_codes = {}
    /\ issued_at = [c \in ServerCodes |-> NoTime]
    /\ redemptions = [c \in ServerCodes |-> 0]
    /\ last_pair = NoPair
    /\ client_tx = <<>>
    /\ relay_read = 0
    /\ client_in = <<>>
    /\ file_content = <<>>
    /\ file_before = <<>>
    /\ edit_args = NoEdit
    /\ edit_result = NoEditResult
    /\ bash_msg = NoBash
    /\ cmd = NoCmd
    /\ proc = "none"
    /\ bash_pc = "none"
    /\ bash_sent = NoResultMsg

\* the same with an agent process started without flags
InitNoFlags ==
    /\ sock = [a \in Conns |-> "none"]
    /\ agent_user_id = [a \in Conns |-> None]
    /\ pairing_code = [a \in Conns |-> NoCode]
    /\ mobile_client = {}
    /\ pending_agents = {}
    /\ desktop_agents = {}
    /\ csock = [k \in Clients |-> "none"]
    /\ client_user = [k \in Clients |-> None]
    /\ client_agent = [k \in Clients |-> NoAgent]
    /\ use_direct_chat = [k \in Clients |-> FALSE]
    /\ promoted = {}
    /\ gary_chat = FALSE
    /\ agent_rx = [a \in Conns |-> {}]
    /\ last_fwd = NoRoute
    /\ notified = NoAgent
    /\ auto_approve = FALSE
    /\ trust_session = FALSE
    /\ apc = "connecting"
    /\ retry_delay = 1
    /\ ws = "closed"
    /\ inbox = <<>>
    /\ cur = NoMsg
    /\ pending_approvals = {}
    /\ elapsed = 0
    /\ log = <<>>
    /\ nreq = 0
    /\ nresp = 0
    /\ answered = {}
    /\ arrivedDuring = {}
    /\ agent_id = "agent-1"
    /\ self_pairing_code = <<"A", "B">>
    /\ running = TRUE
    /\ registered = {}
    /\ reg_sent = FALSE
    /\ req = NoMsg
    /\ approval = <<FALSE, "deny">>
    /\ op_ok = FALSE
    /\ result_msg = NoResultMsg
    /\ now = 0
    /\ pairing_codes = {}
    /\ issued_at = [c \in ServerCodes |-> NoTime]
    /\ redemptions = [c \in ServerCodes |-> 0]
    /\ last_pair = NoPair
    /\ client_tx = <<>>
    /\ relay_read = 0
    /\ client_in = <<>>
    /\ file_content = <<>>
    /\ file_before = <<>>
    /\ edit_args = NoEdit
    /\ edit_result = NoEditResult
    /\ bash_msg = NoBash
    /\ cmd = NoCmd
    /\ proc = "none"
    /\ bash_pc = "none"
    /\ bash_sent = NoResultMsg

\* the relay at startup, with or without ANTHROPIC_API_KEY
RouteInit ==
    /\ sock = [a \in Conns |-> "none"]
    /\ agent_user_id = [a \in Conns |-> None]
    /\ pairing_code = [a \in Conns |-> NoCode]
    /\ mobile_client = {}
    /\ pending_agents = {}
    /\ desktop_agents = {}
    /\ csock = [k \in Clients |-> "none"]
    /\ client_user = [k \in Clients |-> None]
    /\ client_agent = [k \in Clients |-> NoAgent]
    /\ use_direct_chat = [k \in Clients |-> FALSE]
    /\ promoted = {}
    /\ gary_chat \in BOOLEAN
    /\ agent_rx = [a \in Conns |-> {}]
    /\ last_fwd = NoRoute
    /\ notified = NoAgent
    /\ auto_approve = FALSE
    /\ trust_session = FALSE
    /\ apc = "connecting"
    /\ retry_delay = 1
    /\ ws = "closed"
    /\ inbox = <<>>
    /\ cur = NoMsg
    /\ pending_approvals = {}
    /\ elapsed = 0
    /\ log = <<>>
    /\ nreq = 0
    /\ nresp = 0
    /\ answered = {}
    /\ arrivedDuring = {}
    /\ agent_id = "agent-1"
    /\ self_pairing_code = <<"A", "B">>
    /\ running = TRUE
    /\ registered = {}
    /\ reg_sent = FALSE
    /\ req = NoMsg
    /\ approval = <<FALSE, "deny">>
    /\ op_ok = FALSE
    /\ result_msg = NoResultMsg
    /\ now = 0
    /\ pairing_codes = {}
    /\ issued_at = [c \in ServerCodes |-> NoTime]
    /\ redemptions = [c \in ServerCodes |-> 0]
    /\ last_pair = NoPair
    /\ client_tx = <<>>
    /\ relay_read = 0
    /\ client_in = <<>>
    /\ file_content = <<>>
    /\ file_before = <<>>
    /\ edit_args = NoEdit
    /\ edit_result = NoEditResult
    /\ bash_msg = NoBash
    /\ cmd = NoCmd
    /\ proc = "none"
    /\ bash_pc = "none"
    /\ bash_sent = NoResultMsg

Min(x, y) == IF x < y THEN x ELSE y

Ev(e, r) == [ev |-> e, request_id |-> r]

\* ------------------------------------------------------------ environment
\* the control client sends an operation request with a fresh request_id
CtlRequest(op) ==
    /\ ws = "open"
    /\ nreq < NumRequests
    /\ Len(inbox) < MaxInbox
    /\ nreq' = nreq + 1
    /\ inbox' = Append(inbox, OpMsg(op, <<"r", nreq + 1>>))
    /\ arrivedDuring' = IF apc = "wait"
                        THEN arrivedDuring \cup {<<<<"r", nreq + 1>>, cur.request_id, op \in SafeOps>>}
                        ELSE arrivedDuring
    /\ UNCHANGED <<auto_approve, trust_session, apc, retry_delay, ws, cur,
                   pending_approvals, elapsed, log, nresp, answered>>
    /\ UNCHANGED <<relayVars, routeVars, otherVars, identVars, registered, reg_sent>>

\* <<approved, trust>> of the responses a control client sends: deny, approve, trust
ResponseFlags == {<<FALSE, FALSE>>, <<TRUE, FALSE>>, <<TRUE, TRUE>>}

Answer(approved, trust) == IF trust THEN "trust" ELSE IF approved THEN "approve" ELSE "deny"

\* the control client sends an approval_response
CtlApprovalResponse(r, approved, trust) ==
    /\ ws = "open"
    /\ nresp < MaxResponses
    /\ Len(inbox) < MaxInbox
    /\ r[2] <= nreq
    /\ nresp' = nresp + 1
    /\ inbox' = Append(inbox, ApprovalResponse(ApprovalId(r), approved, trust))
    /\ answered' = IF apc = "wait" /\ cur.request_id = r /\ elapsed < ApprovalTimeout
                   THEN answered \cup {<<r, Answer(approved, trust)>>}
                   ELSE answered
    /\ UNCHANGED <<auto_approve, trust_session, apc, retry_delay, ws, cur,
                   pending_approvals, elapsed, log, nreq, arrivedDuring>>
    /\ UNCHANGED <<relayVars, routeVars, otherVars, identVars, registered, reg_sent>>

\* the connection to the relay goes away
AgentConnLost ==
    /\ ws = "open"
    /\ ws' = "closed"
    /\ UNCHANGED <<auto_approve, trust_session, apc, retry_delay, inbox, cur,
                   pending_approvals, elapsed, log, nreq, nresp, answered, arrivedDuring>>
    /\ UNCHANGED <<relayVars, routeVars, otherVars, identVars, registered, reg_sent>>

\* ---------------------------------------------------------- connect() loop
\* mutant of RegisterMsg: a pairing code is generated for every connection
RegisterMsgFresh ==
    [type |-> "register", agent_id |-> agent_id,
     pairing_code |-> IF registered = {} THEN self_pairing_code ELSE <<"C", "D">>]

\* the register message: agent_id and pairing_code as connect() fixed them
\* before its loop
RegisterMsg ==
    [type |-> "register", agent_id |-> agent_id, pairing_code |-> self_pairing_code]

\* websockets.connect succeeds: retry_delay = 1, register is sent, the loop starts
Connect ==
    /\ apc = "connecting"
    /\ running
    /\ ws' = "open"
    /\ retry_delay' = 1
    /\ registered' = registered \cup {RegisterMsg}
    /\ reg_sent' = TRUE
    /\ inbox' = <<>>
    /\ apc' = "recv"
    /\ UNCHANGED <<auto_approve, trust_session, cur, pending_approvals, elapsed,
                   log, nreq, nresp, answered, arrivedDuring>>
    /\ UNCHANGED <<relayVars, routeVars, otherVars, identVars>>

\* websockets.connect raises: "Connection error", then the retry sleep
ConnectFail ==
    /\ apc = "connecting"
    /\ running
    /\ apc' = "sleep"
    /\ UNCHANGED <<auto_approve, trust_session, retry_delay, ws, inbox, cur,
                   pending_approvals, elapsed, log, nreq, nresp, answered, arrivedDuring>>
    /\ UNCHANGED <<relayVars, routeVars, otherVars, identVars, registered, reg_sent>>

\* mutant of NextDelay: the delay doubles without a ceiling
NextDelayUncapped(d) == d * 2

\* retry_delay = min(retry_delay * 2, 30)
NextDelay(d) == Min(d * 2, MaxRetryDelay)

\* "if self.running:" await asyncio.sleep(retry_delay), the next delay, and
\* back to "while self.running"
Sleep ==
    /\ apc = "sleep"
    /\ running
    /\ retry_delay' = NextDelay(retry_delay)
    /\ apc' = "connecting"
    /\ reg_sent' = FALSE
    /\ UNCHANGED <<auto_approve, trust_session, ws, inbox, cur, pending_approvals,
                   elapsed, log, nreq, nresp, answered, arrivedDuring>>
    /\ UNCHANGED <<relayVars, routeVars, otherVars, identVars, registered>>

\* "async for message in ws" ends or raises ConnectionClosed on a closed connection
LoopExit ==
    /\ apc = "recv"
    /\ ws = "closed"
    /\ inbox = <<>>
    /\ apc' = "sleep"
    /\ UNCHANGED <<auto_approve, trust_session, retry_delay, ws, inbox, cur,
                   pending_approvals, elapsed, log, nreq, nresp, answered, arrivedDuring>>
    /\ UNCHANGED <<relayVars, routeVars, otherVars, identVars, registered, reg_sent>>

\* ----------------------------------------------------------- handle_message
\* self.websocket.send(...): the message goes out on an open connection; on a
\* closed one send raises ConnectionClosed, which leaves handle_message and the
\* message loop and lands in connect()'s except clause
\* mutant of Sent: the message is written a second time
SentTwice(l, e) == IF ws = "open" THEN Append(Append(l, e), e) ELSE l

Sent(l, e) == IF ws = "open" THEN Append(l, e) ELSE l
PcAfterSend == IF ws = "open" THEN "recv" ELSE "sleep"
\* what is left to read once the handler is over: leaving "async with" drops
\* the connection object and the messages it had buffered
InboxAfterSend(rest) == IF ws = "open" THEN rest ELSE <<>>

\* the events of the log that are messages the agent sent
SentEvents == {"approval_request", "result_ok", "result_failed", "result_denied"}

\* the result event of an operation that ran
ResultEv(ok, r) == Ev(IF ok THEN "result_ok" ELSE "result_failed", r)

\* mutant of Bypass: only auto_approve skips the approval
BypassAutoOnly == auto_approve

\* prompt_approval: "if self.auto_approve or self.trust_session: return True"
Bypass == auto_approve \/ trust_session

\* mutant of Waiting: an approval_response is taken whether or not its
\* approval is waited for
WaitingAlways(aid) == TRUE

\* handle_message, approval_response: "if approval_id in self.pending_approvals"
Waiting(aid) == DictHas(pending_approvals, aid)

\* mutant of NextIndex: the loop takes the newest received message
NextIndexNewest(q) == Len(q)

\* "async for message in websocket": the position, among the messages
\* received and not yet taken, of the one the loop takes next
NextIndex(q) == 1

\* q without its i-th element
RemoveAt(q, i) == SubSeq(q, 1, i - 1) \o SubSeq(q, i + 1, Len(q))

\* the loop takes the next message and runs handle_message on it, up to its
\* end or up to the await of the approval in prompt_approval
HandleMessage ==
    /\ apc = "recv"
    /\ inbox # <<>>
    /\ LET msg == inbox[NextIndex(inbox)]
           rest == RemoveAt(inbox, NextIndex(inbox))
           r == msg.request_id
           aid == msg.approval_id IN
        IF msg.type = "approval_response"
        THEN /\ pending_approvals' =
                   IF Waiting(aid)
                   THEN DictPut(DictPut(pending_approvals, ResultKey(aid),
                                        Answer(msg.approved, msg.trust)),
                                aid, "set")
                   ELSE pending_approvals
             /\ inbox' = rest
             /\ UNCHANGED <<apc, cur, elapsed, log>>
        ELSE IF msg.type \in SafeOps
        THEN /\ \E ok \in BOOLEAN : log' = Sent(log, ResultEv(ok, r))
             /\ apc' = PcAfterSend
             /\ inbox' = InboxAfterSend(rest)
             /\ UNCHANGED <<cur, elapsed, pending_approvals>>
        ELSE IF Bypass
        THEN /\ \E ok \in BOOLEAN :
                    log' = Sent(Append(log, Ev("exec", r)), ResultEv(ok, r))
             /\ apc' = PcAfterSend
             /\ inbox' = InboxAfterSend(rest)
             /\ UNCHANGED <<cur, elapsed, pending_approvals>>
        ELSE IF ws = "open"
        THEN /\ log' = Append(log, Ev("approval_request", r))
             /\ pending_approvals' = DictPut(pending_approvals, ApprovalId(r), "unset")
             /\ apc' = "wait"
             /\ cur' = msg
             /\ elapsed' = 0
             /\ inbox' = rest
        ELSE \* sending the approval_request raises
             /\ apc' = "sleep"
             /\ inbox' = <<>>
             /\ UNCHANGED <<cur, elapsed, log, pending_approvals>>
    /\ UNCHANGED <<auto_approve, trust_session, retry_delay, ws, nreq, nresp,
                   answered, arrivedDuring>>
    /\ UNCHANGED <<relayVars, routeVars, otherVars, identVars, registered, reg_sent>>

\* whether the Event of the approval that is waited for has been set
EventSet == DictGetOr(pending_approvals, ApprovalId(cur.request_id), "unset") = "set"

\* mutant of TimedOut: the Event is awaited without a timeout
TimedOutNever == FALSE

\* asyncio.wait_for's timeout has expired
TimedOut == elapsed >= ApprovalTimeout

\* time passes while wait_for waits
Tick ==
    /\ apc = "wait"
    /\ ~EventSet
    /\ elapsed < ApprovalTimeout
    /\ elapsed' = Min(elapsed + TickSeconds, ApprovalTimeout)
    /\ UNCHANGED <<auto_approve, trust_session, apc, retry_delay, ws, inbox, cur,
                   pending_approvals, log, nreq, nresp, answered, arrivedDuring>>
    /\ UNCHANGED <<relayVars, routeVars, otherVars, identVars, registered, reg_sent>>

\* mutant of Granted: a timeout counts as an approval
GrantedOnTimeout(isSet, result) == ~isSet \/ result \in {"trust", "approve"}

\* prompt_approval's return value once wait_for is over
Granted(isSet, result) == isSet /\ result \in {"trust", "approve"}

\* mutant of CleanUp: the entries are removed only when the Event was set
CleanUpIfSet(d, aid) ==
    IF DictGetOr(d, aid, "unset") = "set"
    THEN DictDel(DictDel(d, aid), ResultKey(aid)) ELSE d

\* prompt_approval's finally block: pop(approval_id), pop(approval_id_result)
CleanUp(d, aid) == DictDel(DictDel(d, aid), ResultKey(aid))

\* wait_for returns (the Event is set) or raises TimeoutError (60 s are over);
\* prompt_approval cleans up and returns, and handle_message runs to its end
Resume ==
    /\ apc = "wait"
    /\ IF EventSet THEN TRUE ELSE TimedOut
    /\ LET r == cur.request_id
           aid == ApprovalId(r)
           result == DictGetOr(pending_approvals, ResultKey(aid), "deny")
           how == IF ~EventSet THEN "timed_out"
                  ELSE IF result = "trust" THEN "trust_elevated"
                  ELSE IF result = "approve" THEN "approved" ELSE "denied" IN
        /\ trust_session' = IF EventSet /\ result = "trust" THEN TRUE ELSE trust_session
        /\ pending_approvals' = CleanUp(pending_approvals, aid)
        /\ IF Granted(EventSet, result)
           THEN \E ok \in BOOLEAN :
                   log' = Sent(Append(Append(log, Ev(how, r)), Ev("exec", r)), ResultEv(ok, r))
           ELSE log' = Sent(Append(log, Ev(how, r)), Ev("result_denied", r))
        /\ apc' = PcAfterSend
        /\ inbox' = InboxAfterSend(inbox)
        /\ cur' = NoMsg
        /\ elapsed' = 0
    /\ UNCHANGED <<auto_approve, retry_delay, ws, nreq, nresp, answered,
                   arrivedDuring>>
    /\ UNCHANGED <<relayVars, routeVars, otherVars, identVars, registered, reg_sent>>

AgentNext ==
    \/ \E op \in OpTypes : CtlRequest(op)
    \/ \E r \in RequestIds, f \in ResponseFlags : CtlApprovalResponse(r, f[1], f[2])
    \/ AgentConnLost
    \/ Connect
    \/ ConnectFail
    \/ Sleep
    \/ LoopExit
    \/ HandleMessage
    \/ Tick
    \/ Resume

\* ------------------------------------------- the result of one operation
\* the second argument handle_message's branch passes to send_result: msg_type,
\* but the literal "execution_result" in the execute branch
OperationArg(op) == IF op = "execute" THEN <<"execution", "_result">> ELSE <<op>>

\* send_result: {"type": f"{operation}_result", "request_id": request_id, "result": result}
send_result(request_id, operation, result) ==
    [type |-> operation \o <<"_result">>, request_id |-> request_id, result |-> result]

\* whether handle_message runs the operation: always for one that needs no
\* approval, else by prompt_approval's return value
Allowed(op, isSet, answer) == op \in SafeOps \/ Bypass \/ Granted(isSet, answer)

\* the message handle_message sends for an operation request
ResultMsg(m, isSet, answer, ok) ==
    send_result(m.request_id, OperationArg(m.type),
                IF Allowed(m.type, isSet, answer) THEN OpResult(ok) ELSE DeniedResult)

\* an operation request with every way its handling can go
WireInit ==
    /\ sock = [a \in Conns |-> "none"]
    /\ agent_user_id = [a \in Conns |-> None]
    /\ pairing_code = [a \in Conns |-> NoCode]
    /\ mobile_client = {}
    /\ pending_agents = {}
    /\ desktop_agents = {}
    /\ csock = [k \in Clients |-> "none"]
    /\ client_user = [k \in Clients |-> None]
    /\ client_agent = [k \in Clients |-> NoAgent]
    /\ use_direct_chat = [k \in Clients |-> FALSE]
    /\ promoted = {}
    /\ gary_chat = FALSE
    /\ agent_rx = [a \in Conns |-> {}]
    /\ last_fwd = NoRoute
    /\ notified = NoAgent
    /\ auto_approve \in BOOLEAN
    /\ trust_session \in BOOLEAN
    /\ apc = "connecting"
    /\ retry_delay = 1
    /\ ws = "closed"
    /\ inbox = <<>>
    /\ cur = NoMsg
    /\ pending_approvals = {}
    /\ elapsed = 0
    /\ log = <<>>
    /\ nreq = 0
    /\ nresp = 0
    /\ answered = {}
    /\ arrivedDuring = {}
    /\ agent_id = "agent-1"
    /\ self_pairing_code = <<"A", "B">>
    /\ running = TRUE
    /\ registered = {}
    /\ reg_sent = FALSE
    /\ req \in {OpMsg(op, r) : op \in OpTypes, r \in RequestIds}
    /\ approval \in ApprovalEnds
    /\ op_ok \in BOOLEAN
    /\ result_msg = NoResultMsg
    /\ now = 0
    /\ pairing_codes = {}
    /\ issued_at = [c \in ServerCodes |-> NoTime]
    /\ redemptions = [c \in ServerCodes |-> 0]
    /\ last_pair = NoPair
    /\ client_tx = <<>>
    /\ relay_read = 0
    /\ client_in = <<>>
    /\ file_content = <<>>
    /\ file_before = <<>>
    /\ edit_args = NoEdit
    /\ edit_result = NoEditResult
    /\ bash_msg = NoBash
    /\ cmd = NoCmd
    /\ proc = "none"
    /\ bash_pc = "none"
    /\ bash_sent = NoResultMsg

\* handle_message on an operation request, from its dispatch to send_result
HandleOperation ==
    /\ result_msg = NoResultMsg
    /\ result_msg' = ResultMsg(req, approval[1], approval[2], op_ok)
    /\ UNCHANGED <<req, approval, op_ok>>
    /\ UNCHANGED <<relayVars, routeVars, agentVars, httpVars, linkVars, editVars, bashVars>>

WireNext == HandleOperation

\* ------------------------------------------ server-issued pairing codes
\* mutant of delete_pairing_code: the record stays
delete_pairing_code_keep(t, code) == t

\* delete_pairing_code: DELETE FROM pairing_codes WHERE code = ?
delete_pairing_code(t, code) == DictDel(t, code)

\* save_pairing_code: expired records are deleted, then INSERT OR REPLACE
save_pairing_code(t, code, user_id, expires_at) ==
    DictPut({e \in t : ~(e[2][2] < now)}, code, <<user_id, expires_at>>)

\* POST /api/pairing-code by a user with a valid api key; code is what
\* generate_pairing_code returns
CreatePairingCode(u, code) ==
    /\ pairing_codes' = save_pairing_code(pairing_codes, code, u, now + CodeTTL)
    /\ issued_at' = [issued_at EXCEPT ![code] = now]
    /\ redemptions' = [redemptions EXCEPT ![code] = 0]
    /\ last_pair' = NoPair
    /\ UNCHANGED now
    /\ UNCHANGED <<relayVars, routeVars, agentVars, wireVars, linkVars, editVars, bashVars>>

\* POST /api/pair with a code
PairWithCode(code) ==
    /\ IF ~DictHas(pairing_codes, code)
       THEN \* 400 "Invalid or expired pairing code"
            /\ last_pair' = Pair(code, FALSE, NoTime, now, FALSE)
            /\ UNCHANGED <<pairing_codes, redemptions>>
       ELSE LET expires_at == DictGetOr(pairing_codes, code, <<None, NoTime>>)[2] IN
            IF now > expires_at
            THEN \* 400 "Pairing code expired"
                 /\ pairing_codes' = delete_pairing_code(pairing_codes, code)
                 /\ last_pair' = Pair(code, TRUE, expires_at, now, FALSE)
                 /\ UNCHANGED redemptions
            ELSE \* the record is deleted and a session token returned
                 /\ pairing_codes' = delete_pairing_code(pairing_codes, code)
                 /\ last_pair' = Pair(code, TRUE, expires_at, now, TRUE)
                 /\ redemptions' = [redemptions EXCEPT ![code] = redemptions[code] + 1]
    /\ UNCHANGED <<now, issued_at>>
    /\ UNCHANGED <<relayVars, routeVars, agentVars, wireVars, linkVars, editVars, bashVars>>

\* time passes
ClockTick ==
    /\ now + ClockStep <= MaxClock
    /\ now' = now + ClockStep
    /\ last_pair' = NoPair
    /\ UNCHANGED <<pairing_codes, issued_at, redemptions>>
    /\ UNCHANGED <<relayVars, routeVars, agentVars, wireVars, linkVars, editVars, bashVars>>

CodeNext ==
    \/ \E u \in Users, code \in ServerCodes : CreatePairingCode(u, code)
    \/ \E code \in ServerCodes : PairWithCode(code)
    \/ ClockTick

\* ----------------------- one agent process, the relay and its control client
\* the agent process's connection at the relay and the client attached to it
LinkConn == 1
LinkClient == 1
\* the operations the client asks for in these runs, and how many messages
\* a connection holds unread
LinkOps == {"read_file", "write_file"}
MaxQueue == 2

\* the messages of the log that went out on the websocket, in order
SentMsgs(l) == SelectSeq(l, LAMBDA e : e.ev \in SentEvents)

\* the agent has connected and registered, a user has paired it and the
\* user's control client has attached (Connect, AgentAccept, AgentRegister,
\* PairAgent, ClientConnect)
LinkInit ==
    /\ sock = [a \in Conns |-> IF a = LinkConn THEN "open" ELSE "none"]
    /\ agent_user_id = [a \in Conns |-> IF a = LinkConn THEN "u1" ELSE None]
    /\ pairing_code = [a \in Conns |-> IF a = LinkConn THEN <<"A", "B">> ELSE NoCode]
    /\ mobile_client = {<<LinkConn, LinkClient>>}
    /\ pending_agents = {}
    /\ desktop_agents = {<<"u1", LinkConn>>}
    /\ csock = [k \in Clients |-> IF k = LinkClient THEN "open" ELSE "none"]
    /\ client_user = [k \in Clients |-> IF k = LinkClient THEN "u1" ELSE None]
    /\ client_agent = [k \in Clients |-> IF k = LinkClient THEN LinkConn ELSE NoAgent]
    /\ use_direct_chat = [k \in Clients |-> FALSE]
    /\ promoted = {<<"A", "B">>}
    /\ gary_chat = FALSE
    /\ agent_rx = [a \in Conns |-> {}]
    /\ last_fwd = NoRoute
    /\ notified = NoAgent
    /\ auto_approve \in BOOLEAN
    /\ trust_session \in BOOLEAN
    /\ apc = "recv"
    /\ retry_delay = 1
    /\ ws = "open"
    /\ inbox = <<>>
    /\ cur = NoMsg
    /\ pending_approvals = {}
    /\ elapsed = 0
    /\ log = <<>>
    /\ nreq = 0
    /\ nresp = 0
    /\ answered = {}
    /\ arrivedDuring = {}
    /\ agent_id = "agent-1"
    /\ self_pairing_code = <<"A", "B">>
    /\ running = TRUE
    /\ registered = {[type |-> "register", agent_id |-> "agent-1", pairing_code |-> <<"A", "B">>]}
    /\ reg_sent = TRUE
    /\ req = NoMsg
    /\ approval = <<FALSE, "deny">>
    /\ op_ok = FALSE
    /\ result_msg = NoResultMsg
    /\ now = 0
    /\ pairing_codes = {}
    /\ issued_at = [c \in ServerCodes |-> NoTime]
    /\ redemptions = [c \in ServerCodes |-> 0]
    /\ last_pair = NoPair
    /\ client_tx = <<>>
    /\ relay_read = 0
    /\ client_in = <<>>
    /\ file_content = <<>>
    /\ file_before = <<>>
    /\ edit_args = NoEdit
    /\ edit_result = NoEditResult
    /\ bash_msg = NoBash
    /\ cmd = NoCmd
    /\ proc = "none"
    /\ bash_pc = "none"
    /\ bash_sent = NoResultMsg

\* the control client sends an operation request with a fresh request_id
CtlSend(op) ==
    /\ csock[LinkClient] = "open"
    /\ nreq < NumRequests
    /\ Len(client_tx) < MaxQueue
    /\ nreq' = nreq + 1
    /\ client_tx' = Append(client_tx, OpMsg(op, <<"r", nreq + 1>>))
    /\ UNCHANGED <<relay_read, client_in>>
    /\ UNCHANGED <<auto_approve, trust_session, apc, retry_delay, ws, inbox, cur,
                   pending_approvals, elapsed, log, nresp, answered, arrivedDuring,
                   identVars, registered, reg_sent>>
    /\ UNCHANGED <<relayVars, routeVars, wireVars, httpVars, editVars, bashVars>>

\* client_websocket's loop reads the client's next message and writes it to
\* the agent it holds ("elif agent: await agent.websocket.send_text")
RelayToAgent(k) ==
    /\ csock[k] = "open"
    /\ client_tx # <<>>
    /\ Len(inbox) < MaxQueue
    /\ client_agent[k] = LinkConn
    /\ ~(use_direct_chat[k] /\ gary_chat)
    /\ sock[LinkConn] = "open" /\ ws = "open"
    /\ inbox' = Append(inbox, Head(client_tx))
    /\ client_tx' = Tail(client_tx)
    /\ UNCHANGED <<relay_read, client_in>>
    /\ UNCHANGED <<auto_approve, trust_session, apc, retry_delay, ws, cur,
                   pending_approvals, elapsed, log, nreq, nresp, answered,
                   arrivedDuring, identVars, registered, reg_sent>>
    /\ UNCHANGED <<relayVars, routeVars, wireVars, httpVars, editVars, bashVars>>

\* agent_websocket's loop reads the next message the agent process has sent
\* and writes it to the client attached to the agent, if there is one
RelayToClient(a) ==
    /\ sock[a] = "open"
    /\ relay_read < Len(SentMsgs(log))
    /\ relay_read' = relay_read + 1
    /\ LET k == ForwardTarget(a) IN
        IF k # NoClient /\ csock[k] = "open"
        THEN client_in' = Append(client_in, SentMsgs(log)[relay_read + 1])
        ELSE UNCHANGED client_in
    /\ UNCHANGED client_tx
    /\ UNCHANGED <<relayVars, routeVars, agentVars, wireVars, httpVars, editVars, bashVars>>

LinkNext ==
    \/ \E op \in LinkOps : CtlSend(op)
    \/ RelayToAgent(LinkClient)
    \/ RelayToClient(LinkConn)
    \/ HandleMessage
    \/ Tick
    \/ Resume

\* ------------------------------------------------------------ edit_file
Max(a, b) == IF a >= b THEN a ELSE b
\* old_string stands in c at position i
MatchAt(c, old, i) ==
    i + Len(old) - 1 <= Len(c) /\ SubSeq(c, i, i + Len(old) - 1) = old

\* "old_string in content"
Contains(c, old) == \E i \in 1..(Len(c) + 1) : MatchAt(c, old, i)

RECURSIVE CountFrom(_, _, _)
\* str.count from position i on: occurrences that do not overlap, left to right
CountFrom(c, old, i) ==
    IF i + Len(old) - 1 > Len(c) THEN 0
    ELSE IF MatchAt(c, old, i) THEN 1 + CountFrom(c, old, i + Max(Len(old), 1))
    ELSE CountFrom(c, old, i + 1)
\* content.count(old_string)
Count(c, old) == CountFrom(c, old, 1)

RECURSIVE ReplaceFrom(_, _, _, _, _)
\* str.replace from position i on, at most k replacements
ReplaceFrom(c, old, new, i, k) ==
    IF k = 0 \/ i + Len(old) - 1 > Len(c) THEN SubSeq(c, i, Len(c))
    ELSE IF MatchAt(c, old, i)
    THEN new \o (IF Len(old) = 0 /\ i <= Len(c) THEN <<c[i]>> ELSE <<>>)
             \o ReplaceFrom(c, old, new, i + Max(Len(old), 1), k - 1)
    ELSE <<c[i]>> \o ReplaceFrom(c, old, new, i + 1, k)
\* content.replace(old_string, new_string)
ReplaceAll(c, old, new) == ReplaceFrom(c, old, new, 1, Len(c) + 1)
\* content.replace(old_string, new_string, 1)
ReplaceFirst(c, old, new) == ReplaceFrom(c, old, new, 1, 1)

\* an existing file and the arguments of one edit_file call
EditInit ==
    /\ sock = [a \in Conns |-> "none"]
    /\ agent_user_id = [a \in Conns |-> None]
    /\ pairing_code = [a \in Conns |-> NoCode]
    /\ mobile_client = {}
    /\ pending_agents = {}
    /\ desktop_agents = {}
    /\ csock = [k \in Clients |-> "none"]
    /\ client_user = [k \in Clients |-> None]
    /\ client_agent = [k \in Clients |-> NoAgent]
    /\ use_direct_chat = [k \in Clients |-> FALSE]
    /\ promoted = {}
    /\ gary_chat = FALSE
    /\ agent_rx = [a \in Conns |-> {}]
    /\ last_fwd = NoRoute
    /\ notified = NoAgent
    /\ auto_approve = FALSE
    /\ trust_session = FALSE
    /\ apc = "connecting"
    /\ retry_delay = 1
    /\ ws = "closed"
    /\ inbox = <<>>
    /\ cur = NoMsg
    /\ pending_approvals = {}
    /\ elapsed = 0
    /\ log = <<>>
    /\ nreq = 0
    /\ nresp = 0
    /\ answered = {}
    /\ arrivedDuring = {}
    /\ agent_id = "agent-1"
    /\ self_pairing_code = <<"A", "B">>
    /\ running = TRUE
    /\ registered = {}
    /\ reg_sent = FALSE
    /\ req = NoMsg
    /\ approval = <<FALSE, "deny">>
    /\ op_ok = FALSE
    /\ result_msg = NoResultMsg
    /\ now = 0
    /\ pairing_codes = {}
    /\ issued_at = [c \in ServerCodes |-> NoTime]
    /\ redemptions = [c \in ServerCodes |-> 0]
    /\ last_pair = NoPair
    /\ client_tx = <<>>
    /\ relay_read = 0
    /\ client_in = <<>>
    /\ file_content \in Texts(MaxContent)
    /\ file_before = file_content
    /\ edit_args \in {EditArgs(o, n, ra) : o \in Texts(MaxOldString), n \in {<<>>, <<"c">>},
                                           ra \in BOOLEAN}
    /\ edit_result = NoEditResult
    /\ bash_msg = NoBash
    /\ cmd = NoCmd
    /\ proc = "none"
    /\ bash_pc = "none"
    /\ bash_sent = NoResultMsg

\* edit_file on an existing, readable and writable file
EditFile ==
    /\ edit_result = NoEditResult
    /\ LET old == edit_args.old_string
           new == edit_args.new_string
           count == Count(file_content, old) IN
        IF ~Contains(file_content, old)
        THEN /\ edit_result' = EditResult(FALSE, 0, "old_string not found in file", 0)
             /\ UNCHANGED file_content
        ELSE IF ~edit_args.replace_all /\ count > 1
        THEN /\ edit_result' = EditResult(FALSE, 0, "old_string found count times", count)
             /\ UNCHANGED file_content
        ELSE IF edit_args.replace_all
        THEN /\ file_content' = ReplaceAll(file_content, old, new)
             /\ edit_result' = EditResult(TRUE, count, "", 0)
        ELSE /\ file_content' = ReplaceFirst(file_content, old, new)
             /\ edit_result' = EditResult(TRUE, 1, "", 0)
    /\ UNCHANGED <<file_before, edit_args>>
    /\ UNCHANGED <<relayVars, routeVars, agentVars, wireVars, httpVars, linkVars, bashVars>>

EditNext == EditFile

\* ------------------------------------------------------------- run_bash
\* mutant of TimeoutOf: the "timeout" field is not handed to subprocess.run
TimeoutOfNone(m) == Null

\* message.get("timeout", 120): None stands for "no timeout" in subprocess.run
TimeoutOf(m) == IF m.timeout = Absent THEN BashDefaultTimeout ELSE m.timeout

\* subprocess.run raises TimeoutExpired: the command is still running when
\* the timeout is over
Expires(c, timeout) ==
    timeout # Null /\ (c.duration = Forever \/ c.duration >= timeout)

\* subprocess.run returns or raises at all
Returns(c, timeout) == c.duration # Forever \/ timeout # Null

\* run_bash's return value
BashResult(c, timeout) ==
    IF Expires(c, timeout)
    THEN [success |-> FALSE, error |-> "Command timed out after timeout seconds"]
    ELSE [success |-> c.exit_code = 0, error |-> None]

\* the agent is connected and prompt_approval has returned True for a bash
\* request
BashInit ==
    /\ sock = [a \in Conns |-> "none"]
    /\ agent_user_id = [a \in Conns |-> None]
    /\ pairing_code = [a \in Conns |-> NoCode]
    /\ mobile_client = {}
    /\ pending_agents = {}
    /\ desktop_agents = {}
    /\ csock = [k \in Clients |-> "none"]
    /\ client_user = [k \in Clients |-> None]
    /\ client_agent = [k \in Clients |-> NoAgent]
    /\ use_direct_chat = [k \in Clients |-> FALSE]
    /\ promoted = {}
    /\ gary_chat = FALSE
    /\ agent_rx = [a \in Conns |-> {}]
    /\ last_fwd = NoRoute
    /\ notified = NoAgent
    /\ auto_approve = FALSE
    /\ trust_session = FALSE
    /\ apc = "recv"
    /\ retry_delay = 1
    /\ ws = "open"
    /\ inbox = <<>>
    /\ cur = NoMsg
    /\ pending_approvals = {}
    /\ elapsed = 0
    /\ log = <<>>
    /\ nreq = 0
    /\ nresp = 0
    /\ answered = {}
    /\ arrivedDuring = {}
    /\ agent_id = "agent-1"
    /\ self_pairing_code = <<"A", "B">>
    /\ running = TRUE
    /\ registered = {[type |-> "register", agent_id |-> "agent-1", pairing_code |-> <<"A", "B">>]}
    /\ reg_sent = TRUE
    /\ req = NoMsg
    /\ approval = <<FALSE, "deny">>
    /\ op_ok = FALSE
    /\ result_msg = NoResultMsg
    /\ now = 0
    /\ pairing_codes = {}
    /\ issued_at = [c \in ServerCodes |-> NoTime]
    /\ redemptions = [c \in ServerCodes |-> 0]
    /\ last_pair = NoPair
    /\ client_tx = <<>>
    /\ relay_read = 0
    /\ client_in = <<>>
    /\ file_content = <<>>
    /\ file_before = <<>>
    /\ edit_args = NoEdit
    /\ edit_result = NoEditResult
    /\ bash_msg \in {BashMsg(r, t) : r \in RequestIds, t \in TimeoutFields}
    /\ cmd \in {Cmd(d, code) : d \in Durations, code \in {0, 1}}
    /\ proc = "none"
    /\ bash_pc = "approved"
    /\ bash_sent = NoResultMsg

\* handle_message's bash branch from run_bash on: subprocess.run blocks until
\* the command ends or the timeout is over and the process is killed, then
\* send_result writes the result, or raises on a closed connection
HandleBash ==
    /\ bash_pc = "approved"
    /\ Returns(cmd, TimeoutOf(bash_msg))
    /\ proc' = IF Expires(cmd, TimeoutOf(bash_msg)) THEN "killed" ELSE "exited"
    /\ IF ws = "open"
       THEN /\ bash_sent' = send_result(bash_msg.request_id, <<"bash">>,
                                        BashResult(cmd, TimeoutOf(bash_msg)))
            /\ bash_pc' = "sent"
       ELSE /\ bash_pc' = "raised"
            /\ UNCHANGED bash_sent
    /\ UNCHANGED <<bash_msg, cmd>>
    /\ UNCHANGED <<relayVars, routeVars, agentVars, wireVars, httpVars, linkVars, editVars>>

BashNext ==
    \/ HandleBash
    \/ AgentConnLost

\* the relay alone, the agent process left as constructed without flags
RelaySpec == InitNoFlags /\ [][RelayNext]_vars

\* the relay with message forwarding
RouteSpec == RouteInit /\ [][RouteNext]_vars

\* the handling of one operation request
WireSpec == WireInit /\ [][WireNext]_vars

\* the server's pairing codes alone
CodeSpec == InitNoFlags /\ [][CodeNext]_vars

\* an agent process, the relay and the control client on open connections
LinkSpec == LinkInit /\ [][LinkNext]_vars

\* one edit_file call
EditSpec == EditInit /\ [][EditNext]_vars

\* the relay with message forwarding and agents that register more than once
IsolationSpec == RouteInit /\ [][IsolationNext]_vars

\* one approved bash request; the call of subprocess.run comes back when it can
BashSpec == BashInit /\ [][BashNext]_vars /\ WF_vars(HandleBash)

\* one agent process alone
AgentSpec == Init /\ [][AgentNext]_vars

\* the event loop runs a due timeout and a ready coroutine
AgentFairSpec == AgentSpec /\ WF_vars(Tick) /\ WF_vars(Resume)

\* the same, and the message loop takes what it has received, notices a closed
\* connection, and the retry sleep ends
AgentLoopSpec ==
    /\ AgentSpec
    /\ WF_vars(Tick) /\ WF_vars(Resume)
    /\ WF_vars(HandleMessage) /\ WF_vars(LoopExit) /\ WF_vars(Sleep)

\* ------------------------------------------------------------ relay claims
\* a promotion with code c succeeds in this step
PromotionStep(c) ==
    /\ DictHas(pending_agents, c)
    /\ ~DictHas(pending_agents', c)
    /\ sock' = sock

\* C1 (as claimed): a promotion with a code c succeeds at most once; every
\* promotion with c after the first successful one fails.
C1_PromotionOnce ==
    [][\A c \in Codes : PromotionStep(c) => c \notin promoted]_relayVars

\* the entries of a dict d that point at connection a
PointsAt(d, a) == {e \in d : e[2] = a}

\* C8: for every user at most one agent is paired in the registry and every
\* agent has at most one attached control client; a step that pairs another
\* agent under a user removes the first agent's entry and closes neither
\* connection.
C8_OnePerUser ==
    /\ \A u \in Users : Cardinality({e \in desktop_agents : e[1] = u}) <= 1
    /\ \A a \in Conns : Cardinality({e \in mobile_client : e[1] = a}) <= 1

C8_ReplaceStep ==
    \A u \in Users, a \in Conns, b \in Conns :
        (<<u, a>> \in desktop_agents /\ <<u, b>> \in desktop_agents' /\ a # b)
            => /\ <<u, a>> \notin desktop_agents'
               /\ sock'[a] = sock[a]
               /\ (sock[b] = "open" => sock'[b] = "open")

C8_OneAgentPerUser == []C8_OnePerUser /\ [][C8_ReplaceStep]_relayVars

\* C8 witness: two open connections paired under the same user one after the
\* other, the registry holding the second, and two control clients of that
\* user connected to it one after the other.
C8_Witness ==
    \E u \in Users, a \in Conns, b \in Conns, k \in Clients, j \in Clients :
        /\ a # b /\ k # j
        /\ agent_user_id[a] = u /\ agent_user_id[b] = u
        /\ sock[a] = "open" /\ sock[b] = "open"
        /\ <<u, b>> \in desktop_agents
        /\ client_agent[k] = b /\ client_agent[j] = b
        /\ csock[k] = "open" /\ csock[j] = "open"
        /\ <<b, j>> \in mobile_client

\* C9 (as claimed): the cleanup of a closing agent connection removes only
\* registry entries that point at that connection.
C9_CleanupOnlyOwn ==
    [][\A a \in Conns :
          (sock[a] = "dropped" /\ sock'[a] = "closed")
              => /\ (pending_agents \ pending_agents') \subseteq PointsAt(pending_agents, a)
                 /\ (desktop_agents \ desktop_agents') \subseteq PointsAt(desktop_agents, a)
      ]_relayVars

\* C10 (as claimed): no registry entry points at a connection whose cleanup
\* has run.
C10_NoDangling ==
    \A a \in Conns :
        sock[a] = "closed"
            => PointsAt(pending_agents, a) = {} /\ PointsAt(desktop_agents, a) = {}

\* C11 (as claimed): a register message with a code that is registered to a
\* different live connection is rejected, so the pending entry of that code
\* keeps pointing at the first connection.
C11_DuplicateCodeRejected ==
    [][\A c \in Codes, a \in Conns :
          (<<c, a>> \in pending_agents /\ sock[a] = "open" /\ sock' = sock
              /\ DictHas(pending_agents', c))
              => <<c, a>> \in pending_agents'
      ]_relayVars

\* ---------------------------------------------------------- routing claims
\* the relay forwarded a message of agent a to client k in its last step
FwdToClient(a, k) ==
    /\ last_fwd.kind \in AgentMsgKinds /\ last_fwd.outcome = "forwarded"
    /\ last_fwd.from = a /\ last_fwd.to = k
\* the relay forwarded a request of client k to agent a in its last step
FwdToAgent(k, a) ==
    /\ last_fwd.kind = "request" /\ last_fwd.outcome = "forwarded"
    /\ last_fwd.from = k /\ last_fwd.to = a
\* a is open and was paired under a user whose registry entry is now another agent
Evicted(a) ==
    /\ sock[a] = "open" /\ agent_user_id[a] # None
    /\ \E b \in Conns \ {a} : <<agent_user_id[a], b>> \in desktop_agents

\* C12 (as claimed): once another agent is paired under its user, no message
\* of the evicted agent is forwarded to a control client and no control-client
\* message is forwarded to it.
C12_EvictedOrphaned ==
    \A a \in Conns : Evicted(a) =>
        \A k \in Clients : ~FwdToClient(a, k) /\ ~FwdToAgent(k, a)

\* client k connects and finds agent a in this step
AttachStep(k, a) == csock[k] = "none" /\ csock'[k] = "open" /\ client_agent'[k] = a

\* C13: a control client that attaches to an agent becomes its only attached
\* client and no other client's connection is closed by that; an agent gets an
\* attached client in no other way; every agent message is forwarded to the
\* client attached at that moment and to no replaced one.
C13_AttachStepOk ==
    /\ \A k \in Clients, a \in Conns :
          AttachStep(k, a) =>
              /\ {e \in mobile_client' : e[1] = a} = {<<a, k>>}
              /\ \A j \in Clients \ {k} : csock'[j] = csock[j]
    /\ \A e \in mobile_client' \ mobile_client : AttachStep(e[2], e[1])

C13_ForwardedToAttached ==
    \A a \in Conns, k \in Clients :
        FwdToClient(a, k) => <<a, k>> \in mobile_client

C13_NewClientReplaces == []C13_ForwardedToAttached /\ [][C13_AttachStepOk]_vars

\* C13 witness: an agent message forwarded to the client that attached last,
\* the replaced client of the same agent still connected.
C13_Witness ==
    \E a \in Conns, k \in Clients, j \in Clients :
        /\ j # k /\ FwdToClient(a, k)
        /\ csock[j] = "open" /\ client_agent[j] = a /\ <<a, j>> \notin mobile_client

\* C14 (as claimed): an operation result that is forwarded goes to the client
\* that issued the request it answers.
C14_ResultToIssuer ==
    (last_fwd.kind = "result" /\ last_fwd.outcome = "forwarded")
        => last_fwd.to = last_fwd.issuer

\* the registry holds no agent for k's user, or one whose connection is closed
NoAgentFor(k) ==
    \A a \in Conns : <<client_user[k], a>> \in desktop_agents => sock[a] = "closed"

\* C15 (as claimed): a request of a client whose user has no connected agent
\* is answered with a failure result and the client stays connected.
C15_FailureResult ==
    [][\A k \in Clients :
          (csock[k] = "open" /\ NoAgentFor(k)
              /\ last_fwd' # last_fwd /\ last_fwd'.kind = "request" /\ last_fwd'.from = k)
              => last_fwd'.outcome = "failure_result" /\ csock'[k] = "open"
      ]_vars

\* C16: an agent message that is no pong and is read while the agent has no
\* attached client is written to no client, the step keeps nothing of it (the
\* relay's state is as before), and a client that connects is sent nothing
\* by that.
C16_DropStepOk ==
    /\ \A a \in Conns :
          (last_fwd' # last_fwd /\ last_fwd'.kind \in AgentMsgKinds \ {"pong", "malformed"}
              /\ last_fwd'.from = a /\ ~DictHas(mobile_client, a))
              => /\ last_fwd'.outcome = "dropped" /\ last_fwd'.to = NoClient
                 /\ UNCHANGED <<relayVars, gary_chat>>
                 /\ \A b \in Conns : agent_rx'[b] \subseteq agent_rx[b]
    /\ \A k \in Clients :
          (csock[k] = "none" /\ csock'[k] = "open") => last_fwd' = NoRoute

C16_NoBuffering == [][C16_DropStepOk]_vars

\* C16 witness: a message of a paired agent was dropped for lack of an
\* attached client while a client of its user is connected.
C16_Witness ==
    \E a \in Conns, k \in Clients :
        /\ last_fwd.kind = "event" /\ last_fwd.from = a /\ last_fwd.outcome = "dropped"
        /\ agent_user_id[a] # None /\ ~DictHas(mobile_client, a)
        /\ csock[k] = "open" /\ client_user[k] = agent_user_id[a]

\* C17 (as claimed): a promotion for user u attaches a connected control
\* client of u to the promoted agent.
C17_AttachedOnPromotion ==
    [][\A u \in Users, b \in Conns :
          (/\ <<u, b>> \in desktop_agents' /\ <<u, b>> \notin desktop_agents
           /\ \E k \in Clients : csock[k] = "open" /\ client_user[k] = u)
              => \E k \in Clients :
                     csock'[k] = "open" /\ client_user'[k] = u /\ <<b, k>> \in mobile_client'
      ]_vars

\* C18 (as claimed): a connection that registers the code with which an
\* earlier, now closed connection was paired under u is paired under u
\* without another promotion.
C18_RepairedOnReconnect ==
    \A a \in Conns, b \in Conns :
        (/\ a # b /\ sock[a] = "closed" /\ agent_user_id[a] # None
         /\ sock[b] = "open" /\ <<pairing_code[b], b>> \in pending_agents)
            => /\ agent_user_id[b] = agent_user_id[a]
               /\ <<agent_user_id[a], b>> \in desktop_agents

\* ------------------------------------------------------------ agent claims
HasIn(l, e, r) == \E i \in 1..Len(l) : l[i] = Ev(e, r)
Has(e, r) == HasIn(log, e, r)
\* position of the first event e of request r in the log (0: none)
Pos(e, r) == IF Has(e, r) THEN CHOOSE i \in 1..Len(log) :
                                   /\ log[i] = Ev(e, r)
                                   /\ \A j \in 1..(i - 1) : log[j] # Ev(e, r)
             ELSE 0
Resolutions == {"approved", "denied", "trust_elevated", "timed_out"}
Resolved(r) == \E e \in Resolutions : Has(e, r)
ResolvedAt(r) == CHOOSE i \in 1..Len(log) :
                     log[i].request_id = r /\ log[i].ev \in Resolutions
\* the loop takes a message in this step
HandleStep == apc = "recv" /\ inbox # <<>> /\ inbox' \in {Tail(inbox), <<>>} /\ nreq' = nreq /\ nresp' = nresp

\* C2: with auto_approve and trust_session false, a filesystem mutation or
\* process spawn of a request comes only after the approval_request of that
\* request was sent, and a request whose approval was denied (or timed out)
\* is never executed and gets no result but "Operation denied by user".
C2_ApprovalBeforeMutation ==
    (~auto_approve /\ ~trust_session) =>
        \A r \in RequestIds :
            /\ Has("exec", r) =>
                   Has("approval_request", r) /\ Pos("approval_request", r) < Pos("exec", r)
            /\ (Has("denied", r) \/ Has("timed_out", r)) =>
                   /\ ~Has("exec", r)
                   /\ ~Has("result_ok", r) /\ ~Has("result_failed", r)

\* C2 witness: without flags, a dangerous request was asked about, denied by
\* the timeout, and its denial result sent.
C2_Witness ==
    /\ ~auto_approve /\ ~trust_session
    /\ \E r \in RequestIds :
          /\ Has("approval_request", r) /\ Has("timed_out", r)
          /\ Has("result_denied", r) /\ ~Has("exec", r)

\* C3 (as claimed): an approval that the control client answered with
\* approved=true before the timeout, while it was waiting, does not end as
\* timed out or denied.
C3_ApprovedInTime ==
    \A r \in RequestIds :
        (\A a \in {"approve", "deny", "trust"} : <<r, a>> \in answered <=> a = "approve")
            => ~Has("timed_out", r) /\ ~Has("denied", r) /\ ~Has("result_denied", r)

\* C4 (as claimed): once an approval that was answered with trust is over,
\* trust_session is true and no approval_request is sent any more.
C4_TrustSticks ==
    \A r \in RequestIds :
        (<<r, "trust">> \in answered /\ Resolved(r))
            => /\ trust_session
               /\ \A i \in 1..Len(log) :
                      log[i].ev = "approval_request" => i < ResolvedAt(r)

\* C5 (as claimed): an approval that timed out has its failure result sent.
C5_TimeoutResultSent ==
    \A r \in RequestIds : Has("timed_out", r) => Has("result_denied", r)

\* C5 (amended): every waiting approval is eventually over and its handler
\* released; an approval that is over without a response being processed is
\* timed out after 60 seconds, nothing is executed, its entries are removed,
\* and the denial result is sent if the connection is still open.
C5_TimeoutStep ==
    (apc = "wait" /\ ~EventSet /\ apc' # "wait") =>
        /\ elapsed >= ApprovalTimeout
        /\ HasIn(log', "timed_out", cur.request_id)
        /\ ~HasIn(log', "exec", cur.request_id)
        /\ pending_approvals' = {}
        /\ (ws = "open" => HasIn(log', "result_denied", cur.request_id) /\ apc' = "recv")

C5_ApprovalResolves ==
    /\ (apc = "wait") ~> (apc # "wait")
    /\ [][C5_TimeoutStep]_vars

\* C5 witness: a timed-out approval whose denial was sent, the loop reading again.
C5_Witness ==
    \E r \in RequestIds :
        Has("timed_out", r) /\ Has("result_denied", r) /\ apc = "recv" /\ ws = "open"

\* C6 (as claimed): a non-dangerous request that arrived while an approval
\* was waiting has its result sent before that approval is resolved.
C6_LoopNotBlocked ==
    \A x \in arrivedDuring :
        (x[3] /\ Resolved(x[2]))
            => \E i \in 1..(ResolvedAt(x[2]) - 1) :
                   log[i].request_id = x[1] /\ log[i].ev \in {"result_ok", "result_failed"}

\* C7: with auto_approve or trust_session set, handling a dangerous request
\* sends no approval_request, creates no pending approval entry, does not wait,
\* and executes the operation in the same step.
C7_BypassStep ==
    (HandleStep /\ Head(inbox).type \in DangerousOps /\ (auto_approve \/ trust_session)) =>
        /\ pending_approvals' = pending_approvals
        /\ ~HasIn(log', "approval_request", Head(inbox).request_id)
        /\ HasIn(log', "exec", Head(inbox).request_id)
        /\ apc' # "wait"

C7_Bypass == [][C7_BypassStep]_vars

\* C7 witness: a dangerous request executed under --trust alone.
C7_Witness ==
    /\ trust_session /\ ~auto_approve
    /\ \E r \in RequestIds : Has("exec", r) /\ ~Has("approval_request", r)

\* a connection is established in this step
ConnectStep == ws = "closed" /\ ws' = "open"
\* a message other than register is sent in this step
SendStep == Len(log') > Len(log) /\ \E i \in (Len(log) + 1)..Len(log') : log'[i].ev \in SentEvents

\* C19: the step that establishes a connection sends a register message
\* before anything else is sent; whatever else the agent sends, it sends on a
\* connection on which register went out; all register messages of the process
\* are the same message, with the agent_id and pairing_code of the process.
C19_ConnectStepOk ==
    /\ ConnectStep =>
          /\ reg_sent' /\ registered' # {} /\ ~SendStep
          /\ \A m \in registered' \ registered :
                 /\ m.type = "register"
                 /\ m.agent_id = agent_id /\ m.pairing_code = self_pairing_code
    /\ SendStep => ws = "open" /\ reg_sent
    /\ UNCHANGED <<agent_id, self_pairing_code>>

C19_OneRegisterMsg == Cardinality(registered) <= 1 /\ (ws = "open" => reg_sent)

C19_RegisterFirst == []C19_OneRegisterMsg /\ [][C19_ConnectStepOk]_vars

\* C19 witness: the connection was lost while request r1 waited (its denial
\* could not be sent), and the result of a later request r2 went out on the
\* next connection, after the second register.
C19_Witness ==
    /\ Cardinality(registered) = 1 /\ reg_sent /\ ws = "open"
    /\ \E r1 \in RequestIds, r2 \in RequestIds :
          /\ Has("timed_out", r1) /\ ~Has("result_denied", r1)
          /\ Has("result_ok", r2) /\ Pos("timed_out", r1) < Pos("result_ok", r2)

RetryDelays == {1, 2, 4, 8, 16, 30}

\* C20: retry_delay is 1 at the start; it takes the values 1, 2, 4, 8, 16, 30
\* only; it changes only when a retry sleep ends, to the double capped at 30,
\* and when a connection is established, to 1; the loop never ends while
\* running is true, and after a disconnect it gets to a new connection attempt.
C20_DelayOk ==
    /\ retry_delay \in RetryDelays /\ retry_delay <= 30
    /\ running /\ apc \in {"connecting", "recv", "wait", "sleep"}

C20_DelayStepOk ==
    /\ (apc = "sleep" /\ apc' # "sleep") =>
           /\ apc' = "connecting"
           /\ retry_delay' = IF retry_delay * 2 > 30 THEN 30 ELSE retry_delay * 2
    /\ ConnectStep => retry_delay' = 1
    /\ retry_delay' # retry_delay => ConnectStep \/ (apc = "sleep" /\ apc' = "connecting")

C20_Backoff ==
    /\ retry_delay = 1
    /\ []C20_DelayOk
    /\ [][C20_DelayStepOk]_vars
    /\ (ws = "closed" /\ apc # "connecting") ~> (apc = "connecting")

\* C20 witness: after a connection that was lost, attempts have failed until
\* the delay reached its ceiling.
C20_Witness ==
    /\ registered # {} /\ ws = "closed"
    /\ apc = "sleep" /\ retry_delay = 30

\* C21: each pending approval is resolved exactly once and its entries are
\* removed from pending_approvals when it is resolved; an approval_response
\* whose approval_id is not waited for (late, duplicate or unknown) changes
\* nothing of the agent but the message being consumed.
ResolutionsOf(l, r) == {i \in 1..Len(l) : l[i].request_id = r /\ l[i].ev \in Resolutions}
C21_Step ==
    /\ (/\ HandleStep
        /\ Head(inbox).type = "approval_response"
        /\ ~DictHas(pending_approvals, Head(inbox).approval_id))
           => UNCHANGED <<auto_approve, trust_session, pending_approvals, apc, cur,
                          elapsed, log, ws, retry_delay>>
    /\ \A r \in RequestIds :
          /\ Cardinality(ResolutionsOf(log', r)) <= 1
          /\ ResolutionsOf(log', r) # ResolutionsOf(log, r) =>
                 /\ DictHas(pending_approvals, ApprovalId(r))
                 /\ ~DictHas(pending_approvals', ApprovalId(r))
                 /\ ~DictHas(pending_approvals', ResultKey(ApprovalId(r)))
    /\ apc' # "wait" => pending_approvals' = {}
C21_ResolvedOnce == [][C21_Step]_vars

\* C21 witness: an approval ended by its timeout, and the approval_response
\* that came for it afterwards was taken by the loop and left nothing behind.
C21_Witness ==
    /\ \E r \in RequestIds : Has("timed_out", r) /\ Has("result_denied", r)
    /\ nresp = 1 /\ inbox = <<>> /\ apc = "recv" /\ ws = "open"
    /\ pending_approvals = {} /\ ~trust_session

\* C22 (as claimed): the failure result of a dangerous operation whose
\* approval timed out carries another error message than the failure result
\* of the same operation when the user denies it.
NeedsApproval == req.type \in DangerousOps /\ ~auto_approve /\ ~trust_session
C22_TimeoutDistinct ==
    (NeedsApproval /\ result_msg # NoResultMsg /\ ~approval[1])
        => /\ ~result_msg.result.success
           /\ result_msg.result.error # ResultMsg(req, TRUE, "deny", op_ok).result.error

\* C23 (as claimed): the result message of an operation request of type op
\* with request_id r has request_id r and type op + "_result", but type
\* "execution_result" for op = execute.
C23_ResultType ==
    result_msg # NoResultMsg =>
        /\ result_msg.request_id = req.request_id
        /\ result_msg.type = IF req.type = "execute" THEN <<"execution", "_result">>
                              ELSE <<req.type, "_result">>

\* C24 (as claimed): a ping the relay reads from an agent is answered by the
\* relay with a pong to that agent and is not forwarded to the control client.
C24_PingAnswered ==
    last_fwd.kind = "ping" => last_fwd.outcome = "pong_sent" /\ last_fwd.to = NoClient

\* C26 (as claimed): a text that is no JSON is ignored and the connection it
\* came on stays open, at the relay's agent endpoint and at its control
\* client endpoint.
C26_MalformedIgnored ==
    last_fwd.kind = "malformed" =>
        /\ last_fwd.outcome = "skipped"
        /\ IF last_fwd.issuer = NoClient
           THEN sock[last_fwd.from] = "open"     \* read from an agent
           ELSE csock[last_fwd.from] = "open"    \* read from a control client

\* C27 (as claimed): no control client's connection is ended because of the
\* failure or disconnect of another connection: after its agent disconnected
\* the client stays connected and the relay keeps reading its messages.
C27_ClientSurvives ==
    ~(last_fwd.kind = "request" /\ last_fwd.outcome = "closed")

\* C28 (as claimed): a pairing code is never used by two agent connections:
\* when a connection is registered under code c, no promotion has used c
\* and no other connection is or was registered under c.
C28_RegisterStep ==
    \A b \in Conns, c \in Codes :
        (<<c, b>> \in pending_agents' /\ <<c, b>> \notin pending_agents)
            => /\ c \notin promoted
               /\ \A a \in Conns \ {b} :
                      pairing_code[a] # c /\ <<c, a>> \notin pending_agents
C28_CodeNotReused == [][C28_RegisterStep]_vars

\* C29 (as claimed): once a promotion has set the user_id of an agent
\* connection, no later register message or promotion changes it.
C29_PairedStep ==
    \A a \in Conns :
        (agent_user_id[a] # None /\ agent_user_id'[a] # None)
            => agent_user_id'[a] = agent_user_id[a]
C29_PairedOnce == [][C29_PairedStep]_vars

NoApprovalResult(l, i) ==
    /\ l[i].ev \in {"result_ok", "result_failed"}
    /\ ~HasIn(l, "approval_request", l[i].request_id)
C25_InOrder ==
    /\ client_in = SubSeq(SentMsgs(log), 1, Len(client_in))
    /\ relay_read = Len(client_in)
    /\ LET pending == client_tx IN
          /\ \A i, j \in 1..Len(inbox) : i < j => inbox[i].request_id[2] < inbox[j].request_id[2]
          /\ \A i, j \in 1..Len(pending) : i < j => pending[i].request_id[2] < pending[j].request_id[2]
          /\ \A i \in 1..Len(inbox), j \in 1..Len(pending) :
                 inbox[i].request_id[2] < pending[j].request_id[2]
    /\ \A i, j \in 1..Len(log) :
          (NoApprovalResult(log, i) /\ NoApprovalResult(log, j) /\ i < j)
              => log[i].request_id[2] < log[j].request_id[2]

\* C25 witness: the client has got the results of two requests that needed
\* no approval, the one of the first request first.
C25_Witness ==
    /\ Len(client_in) = 2
    /\ client_in[1].request_id = <<"r", 1>> /\ client_in[2].request_id = <<"r", 2>>
    /\ client_in[1].ev \in {"result_ok", "result_failed"}
    /\ client_in[2].ev \in {"result_ok", "result_failed"}
    /\ ~Has("approval_request", <<"r", 1>>) /\ ~Has("approval_request", <<"r", 2>>)

\* C31 (as claimed): a request the relay forwards to an agent comes from the
\* control client that is attached to that agent; the request of a client
\* whose attachment was replaced is not forwarded.
C31_OnlyAttachedForwards ==
    (last_fwd.kind = "request" /\ last_fwd.outcome = "forwarded")
        => <<last_fwd.to, last_fwd.from>> \in mobile_client

\* C32 (as claimed): edit_file on a file in which old_string occurs n times:
\* n = 0 is an error and the file stays as it was; n = 1 replaces that
\* occurrence and reports 1 replacement; n > 1 without replace_all is an
\* error that reports n and the file stays as it was; n > 1 with replace_all
\* replaces all n occurrences and reports n.
Occurrences(c, old) == {i \in 1..(Len(c) + 1) : MatchAt(c, old, i)}
\* c with the occurrence of old at position i replaced by new
ReplacedAt(c, old, new, i) ==
    SubSeq(c, 1, i - 1) \o new \o SubSeq(c, i + Len(old), Len(c))
C32_EditByCount ==
    edit_result # NoEditResult =>
        LET old == edit_args.old_string
            new == edit_args.new_string
            occ == Occurrences(file_before, old)
            n == Cardinality(occ) IN
        /\ n = 0 => ~edit_result.success /\ file_content = file_before
        /\ n = 1 => /\ edit_result.success /\ edit_result.replacements = 1
                    /\ \A i \in occ : file_content = ReplacedAt(file_before, old, new, i)
        /\ (n > 1 /\ ~edit_args.replace_all) =>
               /\ ~edit_result.success /\ edit_result.count = n
               /\ file_content = file_before
        /\ (n > 1 /\ edit_args.replace_all) =>
               /\ edit_result.success /\ edit_result.replacements = n
               /\ Len(file_content) = Len(file_before) - n * Len(old) + n * Len(new)

\* the command of the bash request runs longer than the request's timeout
\* (the given number of seconds, 120 if none is given)
RunsLonger ==
    /\ bash_msg.timeout # Null
    /\ LET t == IF bash_msg.timeout = Absent THEN 120 ELSE bash_msg.timeout IN
          cmd.duration = Forever \/ cmd.duration >= t
TimeoutError == [success |-> FALSE, error |-> "Command timed out after timeout seconds"]

C33_BashStep ==
    (RunsLonger /\ bash_pc = "approved" /\ bash_pc' # "approved") =>
        /\ proc' = "killed"
        /\ IF ws = "open"
           THEN /\ bash_pc' = "sent"
                /\ bash_sent'.result = TimeoutError
                /\ ~bash_sent'.result.success
                /\ bash_sent'.request_id = bash_msg.request_id
           ELSE bash_pc' = "raised" /\ bash_sent' = NoResultMsg
EntriesOf(a) ==
    {<<"pending", e[1]>> : e \in {x \in pending_agents : x[2] = a}}
        \cup {<<"paired", e[1]>> : e \in {x \in desktop_agents : x[2] = a}}

\* C34 (as claimed): an agent connection is referenced by at most one registry
\* entry over pending_agents and desktop_agents together.
C34_OneEntry == \A a \in Conns : Cardinality(EntriesOf(a)) <= 1

\* C35 (as claimed): a message forwarded from an agent goes to a control
\* client authenticated as the user the agent is paired under at that
\* moment, and a message forwarded to an agent comes from a control client
\* of the user the agent is paired under.
C35_UserIsolation ==
    /\ (last_fwd.outcome = "forwarded" /\ last_fwd.kind \in {"result", "event"})
           => client_user[last_fwd.to] = agent_user_id[last_fwd.from]
    /\ (last_fwd.outcome = "forwarded" /\ last_fwd.kind = "request")
           => client_user[last_fwd.from] = agent_user_id[last_fwd.to]

\* the places of the log where a result message for request r went out
ResultEvents == {"result_ok", "result_failed", "result_denied"}
ResultsOf(l, r) == {i \in 1..Len(l) : l[i].request_id = r /\ l[i].ev \in ResultEvents}
\* the loop has received the operation request r and not taken it yet
Received(r) == \E i \in 1..Len(inbox) : inbox[i].type \in OpTypes /\ inbox[i].request_id = r

\* C36: for every operation request the agent receives it sends exactly one
\* result message with that request_id if its connection stays open: a
\* received request leads to its result or to the loss of the connection,
\* the handler that comes to its end on an open connection has sent one
\* result (operation run, failed, denied or approval timed out), and no
\* request ever has two results.
C36_Step ==
    /\ \A r \in RequestIds : Cardinality(ResultsOf(log', r)) <= 1
    /\ (HandleStep /\ ws = "open" /\ Head(inbox).type \in OpTypes /\ apc' # "wait")
          => Cardinality(ResultsOf(log', Head(inbox).request_id)) = 1
    /\ (apc = "wait" /\ apc' # "wait" /\ ws = "open")
          => Cardinality(ResultsOf(log', cur.request_id)) = 1
C37_CloseStepOk ==
    \A k \in Clients :
        (csock[k] = "open" /\ csock'[k] = "closed") =>
            LET held == {a \in Conns : <<a, k>> \in mobile_client} IN
                /\ mobile_client' = {e \in mobile_client : e[2] # k}
                /\ IF held = {} THEN notified' = NoAgent ELSE notified' \in held
C37_DetachOnlyAttached == [][C37_CloseStepOk]_vars

\* C37 witness: both control clients of an agent are gone; the one that was
\* attached at its end had client_disconnected written to the agent, whose
\* attachment is cleared.
C37_Witness ==
    \E a \in Conns :
        /\ notified = a /\ sock[a] = "open" /\ ~DictHas(mobile_client, a)
        /\ \A k \in Clients : csock[k] = "closed"

\* C38: an agent connection that has never been promoted (its user_id is
\* unset: it is pending or has not registered yet) has no message delivered
\* to a control client and no control client attached; a user_id that was
\* set is never unset.
C38_UnpromotedStep ==
    /\ \A a \in Conns : agent_user_id[a] # None => agent_user_id'[a] # None
    /\ \A a \in Conns : agent_user_id'[a] = None =>
          /\ ~DictHas(mobile_client', a)
          /\ \A k \in Clients : client_agent'[k] # a
          /\ ~(last_fwd'.from = a /\ last_fwd'.issuer = NoClient /\ last_fwd'.to # NoClient)
          /\ ~(last_fwd'.kind = "result" /\ last_fwd'.from = a /\ last_fwd'.to # NoClient)
C38_NoUnpromotedTraffic == [][C38_UnpromotedStep]_vars

\* C38 witness: a pending agent has sent a message while a control client
\* was connected, and the message was dropped.
C38_Witness ==
    \E a \in Conns, k \in Clients :
        /\ agent_user_id[a] = None /\ (\E e \in pending_agents : e[2] = a)
        /\ csock[k] = "open"
        /\ last_fwd = Route("event", a, NoClient, NoClient, "dropped")

\* the keys of pending_approvals
ApprovalKeys == {e[1] : e \in pending_approvals}

\* C39: pending_approvals holds an entry for an approval_id only while a
\* handler is blocked on it: it is empty whenever no dangerous request awaits
\* its approval, and while one does it holds the Event of that request's
\* approval_id, at most its stored result, and nothing of any other approval.
C39_OnlyWhileBlocked ==
    /\ apc # "wait" => pending_approvals = {}
    /\ apc = "wait" =>
          /\ cur.type \in DangerousOps
          /\ ApprovalId(cur.request_id) \in ApprovalKeys
          /\ ApprovalKeys \subseteq {ApprovalId(cur.request_id),
                                     ResultKey(ApprovalId(cur.request_id))}
    /\ Cardinality({r \in RequestIds : ApprovalId(r) \in ApprovalKeys}) <= 1

\* C39 witness: the approval of one request has timed out and its entry is
\* gone; the handler of the next dangerous request is blocked on its own
\* approval, the only entry.
C39_Witness ==
    \E r1, r2 \in RequestIds :
        /\ r1 # r2 /\ Has("timed_out", r1) /\ Has("result_denied", r1)
        /\ apc = "wait" /\ cur.request_id = r2
        /\ pending_approvals = {<<ApprovalId(r2), "unset">>}
====
